---------------------------- MODULE Spec2Model ----------------------------
(***************************************************************************)
(* h3sed hero plugin (src/src/h3sed/plugins/hero/__init__.py): heuristic   *)
(* detection of hero records in a savefile buffer, version selection, and  *)
(* patching of edited hero bytes back into the buffer.                     *)
(*                                                                         *)
(* Bytes are integers 0..255.  The hero byte pattern RGX_HERO is 1025      *)
(* bytes long; the model keeps every kind of segment of it (wildcards,     *)
(* ranges, the name capture, the slot alternations, the tail) with the     *)
(* repetition counts reduced, as laid out at HeroLayout below.  The        *)
(* savefile buffer is held as a run of hdr zero bytes followed by an       *)
(* explicit body, so that the scan start offset keeps its value 10000.     *)
(***************************************************************************)
EXTENDS Integers, Sequences, FiniteSets, TLC

VARIABLES
    raw,              \* savefile.raw: [hdr |-> n, body |-> <<bytes>>]
    version,          \* savefile.version
    vplugins,         \* plugins.version.PLUGINS names, <<>> if no version plugin
    heroes,           \* HeroPlugin._heroes
    hero,             \* HeroPlugin._hero as an index into heroes, 0 for None
    pages,            \* HeroPlugin._pages in tab order: hero index of each hero tab
    curpage,          \* selected tab: 0 the index page, k the k-th hero tab
    visited,          \* HeroPlugin._pages_visited: hero indexes, 0 for None
    pstate,           \* the subplugins' state, as the bytes serialize() returns
    status,           \* whether this parse issued "No heroes identified"
    pc,               \* "new" before __init__'s parse, "parse" inside parse, "idle"
    gen,              \* number of parse calls so far (object identity of heroes)
    detect,           \* parse: the detect_version argument
    ver0,             \* parse: savefile.version at entry
    versions,         \* parse: candidate versions still to try
    all_versions,     \* parse: all candidate versions
    version_results,  \* parse: version -> heroes of its pass
    pos,              \* parse: absolute scan offset
    m,                \* parse: <<start, end>> of the current match in raw[pos:], <<>> for None
    caller,           \* who called parse: "init" for __init__, "reparse"
    hero0,            \* reparse: index in heroes0 of the hero selected at entry, 0 for None
    pages0,           \* reparse: hero indexes of the open pages at entry, in tab order
    heroes0,          \* reparse: self._heroes at entry
    visited0,         \* reparse: self._pages_visited at entry
    held,             \* hero copies handed out by get_data and still held by the caller
    raised,           \* exception the last handler let escape, None if it returned
    shero,            \* a Hero with the attributes the stats and artifacts plugins set
    sprev,            \* shero before the last call on it (history)
    gz,               \* a gzip reader at the end of a member: its file and _read_eof
    clip              \* the subplugins' states, their YAML text and what is parsed of it

vars == <<raw, version, vplugins, heroes, hero, pages, curpage, visited, pstate,
          status, pc, gen, detect, ver0, versions, all_versions, version_results,
          pos, m, caller, hero0, pages0, heroes0, visited0, held, raised,
          shero, sprev, gz, clip>>

\* the objects of the parts that are modelled on their own
aux == <<shero, sprev, gz, clip>>

\* the savefile and the hero plugin
main == <<raw, version, vplugins, heroes, hero, pages, curpage, visited, pstate,
          status, pc, gen, detect, ver0, versions, all_versions, version_results,
          pos, m, caller, hero0, pages0, heroes0, visited0, held, raised>>

\* the locals of reparse, and what the steps of parse leave alone besides
reparseLocals == <<caller, hero0, pages0, heroes0, visited0>>
outsideParse == <<reparseLocals, held, raised>>

None == "None"

-----------------------------------------------------------------------------
(* The savefile buffer *)

RawLen(r) == r.hdr + Len(r.body)

\* r[i], 0-based
RawAt(r, i) == IF i < r.hdr THEN 0 ELSE r.body[i - r.hdr + 1]

\* bytearray(r[a:b])
RawSlice(r, a, b) == [k \in 1..(b - a) |-> RawAt(r, a + k - 1)]

Min(S) == CHOOSE x \in S : \A y \in S : x <= y
Max(S) == CHOOSE x \in S : \A y \in S : x >= y

RECURSIVE Repeat(_, _)
Repeat(s, n) == IF n = 0 THEN <<>> ELSE s \o Repeat(s, n - 1)

-----------------------------------------------------------------------------
(* RGX_HERO, with the repetition counts reduced:                           *)
(*   offset  0      .                    movement, experience   (12 -> 1)  *)
(*   offset  1      [\x00-\x1C]          skill slots used                  *)
(*   offset  2      \x00                                         (3 -> 1)  *)
(*   offset  3..6   (?P<name>[^\x00-\x20,\xF0-\xFF].{2}\x00)    (13 -> 4)  *)
(*   offset  7      [\x00-\x03]          skill levels           (28 -> 1)  *)
(*   offset  8      [\x00-\x1C]          skill slots            (28 -> 1)  *)
(*   offset  9      [\x00-\x01]          spells                (140 -> 1)  *)
(*   offset 10..17  (?P<artifacts>(slot){2}), slot of 4 bytes (19x8->2x4)  *)
(*   offset 18..21  backpack slot of 4 bytes                  (64x8->1x4)  *)
(*   offset 22      [\x00-\x05]          combination-artifact tail (10->1) *)
HeroLayout ==
    [name |-> <<3, 7>>, artifacts |-> <<10, 18>>, inventory |-> <<18, 22>>, size |-> 23]

RecLen == HeroLayout.size

InRange(b, lo, hi) == lo <= b /\ b <= hi

\* [^\x00-\x20,\xF0-\xFF]: the comma is a member of the class
NameFirstClass(b) == ~InRange(b, 0, 32) /\ b # 44 /\ ~InRange(b, 240, 255)

\* (\xFF{4} .{4}) | (.\x00{3} (\x00{4} | \xFF{4})) | (.\x00{3}.{2}\x00{2}), halved
WornSlot(s) ==
    \/ s[1] = 255 /\ s[2] = 255
    \/ s[2] = 0 /\ ((s[3] = 0 /\ s[4] = 0) \/ (s[3] = 255 /\ s[4] = 255))
    \/ s[2] = 0 /\ s[4] = 0

\* ((.\x00{3}) | \xFF{4}) (\x00{4} | \xFF{4}), halved
BackpackSlot(s) ==
    /\ (s[2] = 0 \/ (s[1] = 255 /\ s[2] = 255))
    /\ ((s[3] = 0 /\ s[4] = 0) \/ (s[3] = 255 /\ s[4] = 255))

\* plugins.adapt(self, "regex", RGX_HERO): the version plugin's range of the
\* skill-slots-used byte; the base pattern's [\x00-\x1C] without a version plugin
VersionSkillRange(v) ==
    IF v = "hota" THEN <<1, 29>> ELSE <<0, 28>>

\* whether the 23 bytes w (1-based) match the pattern adapted to version v
MatchBytes(w, v) ==
    /\ InRange(w[2], VersionSkillRange(v)[1], VersionSkillRange(v)[2])
    /\ w[3] = 0
    /\ NameFirstClass(w[4])
    /\ w[7] = 0
    /\ InRange(w[8], 0, 3)
    /\ InRange(w[9], 0, 28)
    /\ InRange(w[10], 0, 1)
    /\ WornSlot(SubSeq(w, 11, 14))
    /\ WornSlot(SubSeq(w, 15, 18))
    /\ BackpackSlot(SubSeq(w, 19, 22))
    /\ InRange(w[23], 0, 5)

MatchAt(r, i, v) == MatchBytes(RawSlice(r, i, i + RecLen), v)

\* re.search(RGX, r[p:]): span of the leftmost match relative to p, <<>> for None
Search(r, p, v) ==
    LET starts == {i \in p..(RawLen(r) - RecLen) : MatchAt(r, i, v)}
    IN  IF starts = {} THEN <<>>
        ELSE <<Min(starts) - p, Min(starts) - p + RecLen>>

\* m.group("name"), m.group("artifacts") of a match at absolute offset s
GroupName(r, s) == RawSlice(r, s + HeroLayout.name[1], s + HeroLayout.name[2])
GroupArtifacts(r, s) ==
    RawSlice(r, s + HeroLayout.artifacts[1], s + HeroLayout.artifacts[2])


-----------------------------------------------------------------------------
(* Secondary validation of a match *)

\* [^\x00-\x19,\xF0-\xFF]
StripClass(b) == ~InRange(b, 0, 25) /\ b # 44 /\ ~InRange(b, 240, 255)

\* length of the longest prefix of s whose bytes satisfy the class
RECURSIVE StripRunLen(_)
StripRunLen(s) ==
    IF s = <<>> \/ ~StripClass(Head(s)) THEN 0 ELSE 1 + StripRunLen(Tail(s))

\* "$": at the end of the string, or before a newline that ends the string
AtDollar(s, k) == k = Len(s) \/ (k = Len(s) - 1 /\ s[Len(s)] = 10)

\* a strip pattern without the end anchor: ^([^\x00-\x19,\xF0-\xFF]+)\x00+
rgx_strip_unanchored(s) ==
    LET k == StripRunLen(s) IN k >= 1 /\ k < Len(s) /\ s[k + 1] = 0

\* rgx_strip.match(s) for rgx_strip = ^([^\x00-\x19,\xF0-\xFF]+)\x00+$
\* the greedy run cannot give a byte back: \x00 is not in the class
rgx_strip_match(s) ==
    LET k == StripRunLen(s)
    IN  /\ k >= 1
        /\ \E e \in (k + 1)..Len(s) :
              /\ \A j \in (k + 1)..e : s[j] = 0
              /\ AtDollar(s, e)

\* rgx_strip.match(s).group(1)
rgx_strip_group1(s) == SubSeq(s, 1, StripRunLen(s))

\* rgx_nulls = ^(\x00+)|(\x00{4}\xFF{4})+$ is the alternation of ^(\x00+) and
\* (\x00{4}\xFF{4})+$: the first alternative matches any prefix of null bytes
NullsAlt1(s) == Len(s) >= 1 /\ s[1] = 0

\* (\x00{4}\xFF{4})+$ from the start of s (runs halved as in the slot encoding)
NullsAlt2(s) ==
    \E n \in 1..(Len(s) \div 4) :
        /\ SubSeq(s, 1, 4 * n) = Repeat(<<0, 0, 255, 255>>, n)
        /\ AtDollar(s, 4 * n)

\* the alternation anchored as a whole: ^((\x00+)|(\x00{4}\xFF{4})+)$
rgx_nulls_anchored(s) ==
    \/ Len(s) >= 1 /\ \E e \in 1..Len(s) : (\A j \in 1..e : s[j] = 0) /\ AtDollar(s, e)
    \/ NullsAlt2(s)

\* rgx_nulls.match(s)
rgx_nulls_match(s) == NullsAlt1(s) \/ NullsAlt2(s)

\* line 886: the condition under which a match at absolute offset s becomes a hero
Accepts(r, s) ==
    rgx_strip_match(GroupName(r, s)) /\ ~rgx_nulls_match(GroupArtifacts(r, s))

\* util.to_unicode of a byte string, as a sequence of code points: ASCII bytes
\* decode to themselves, any other byte to U+FFFD
to_unicode(bs) == [i \in 1..Len(bs) |-> IF bs[i] < 128 THEN bs[i] ELSE 65533]

-----------------------------------------------------------------------------
(* Hero, and the ordering of the hero list *)

\* a hero whose place counts from 1
HeroPlaceFromOne(name, bytes, place, span, id) ==
    [name |-> name, bytes |-> bytes, place |-> place + 1, span |-> span, id |-> id]

\* Hero.__init__; id stands for the identity of the object
Hero(name, bytes, place, span, id) ==
    [name |-> name, bytes |-> bytes, place |-> place, span |-> span, id |-> id]

\* str.lower() of a code point sequence
Lower(s) == [i \in 1..Len(s) |-> IF InRange(s[i], 65, 90) THEN s[i] + 32 ELSE s[i]]

\* a < b for strings
RECURSIVE StrLess(_, _)
StrLess(a, b) ==
    IF b = <<>> THEN FALSE
    ELSE IF a = <<>> THEN TRUE
    ELSE IF Head(a) # Head(b) THEN Head(a) < Head(b)
    ELSE StrLess(Tail(a), Tail(b))

\* insertion of h behind every element whose key is not greater (stable)
RECURSIVE InsertByName(_, _)
InsertByName(sorted, h) ==
    IF sorted = <<>> THEN <<h>>
    ELSE IF StrLess(Lower(h.name), Lower(Head(sorted).name))
         THEN <<h>> \o sorted
         ELSE <<Head(sorted)>> \o InsertByName(Tail(sorted), h)

\* sorted(hs, key=lambda x: x.name.lower())
RECURSIVE SortedByName(_)
SortedByName(hs) ==
    IF hs = <<>> THEN <<>>
    ELSE InsertByName(SortedByName(SubSeq(hs, 1, Len(hs) - 1)), hs[Len(hs)])

-----------------------------------------------------------------------------
(* HeroPlugin.parse, one action per step of its loops *)

\* a scan that starts 23 bytes early
ScanStartEarly == 10000 - 23

\* line 882: pos = 10000
ScanStart == 10000

\* a rejected match after which the scan resumes at the match itself
PosAfterRejectAtStart(p, mm) == p + mm[1]

\* an accepted match that moves the scan on by one byte only
PosAfterAcceptByOne(p, mm) == p + mm[1] + 1

\* a rejected match that is skipped in its whole length
PosAfterRejectByLength(p, mm) == p + mm[2]

\* line 891: the scan offset after a match m at offset p was accepted
PosAfterAccept(p, mm) == p + mm[2]

\* line 893: the scan offset after a match m at offset p was rejected
PosAfterReject(p, mm) == p + mm[1] + 1

\* versions[-1], versions[:-1]
Last(s) == s[Len(s)]
Front(s) == SubSeq(s, 1, Len(s) - 1)

\* [k for k in all_versions if vcounts[k] == max(vcounts.values())]
MaxcountVers(all, results) ==
    LET vcounts == [k \in DOMAIN results |-> Len(results[k])]
        maxcount == Max({vcounts[k] : k \in DOMAIN vcounts})
    IN  SelectSeq(all, LAMBDA k : vcounts[k] = maxcount)

\* a choice of the first of the versions with the greatest count
ChosenVersionFirstOfMax(all, results) ==
    LET maxcount_vers == MaxcountVers(all, results)
    IN  IF maxcount_vers # <<>> THEN maxcount_vers[1] ELSE None

\* a choice of the last candidate whatever the counts
ChosenVersionLastListed(all, results) == all[Len(all)]

\* lines 902-904: maxcount_vers[-1] if maxcount_vers else None
ChosenVersion(all, results) ==
    LET maxcount_vers == MaxcountVers(all, results)
    IN  IF maxcount_vers # <<>> THEN Last(maxcount_vers) ELSE None

\* an entry of parse that tries every version plugin whatever detect_version is
ParseBeginAll(detect_version) ==
    LET vs == IF vplugins # <<>> THEN vplugins ELSE <<version>>
    IN  /\ pc' = "parse"
        /\ detect' = detect_version
        /\ ver0' = version
        /\ versions' = vs
        /\ all_versions' = vs
        /\ version_results' = <<>>
        /\ pos' = 0
        /\ m' = <<>>
        /\ status' = FALSE
        /\ gen' = gen + 1

\* lines 865-874: entry of parse(detect_version)
ParseBegin(detect_version) ==
    LET vs == IF detect_version /\ vplugins # <<>> THEN vplugins ELSE <<version>>
    IN  /\ pc' = "parse"
        /\ detect' = detect_version
        /\ ver0' = version
        /\ versions' = vs
        /\ all_versions' = vs
        /\ version_results' = <<>>
        /\ pos' = 0
        /\ m' = <<>>
        /\ status' = FALSE
        /\ gen' = gen + 1

\* HeroPlugin.__init__: self.parse(detect_version=True)
Construct ==
    /\ pc = "new"
    /\ ParseBegin(TRUE)
    /\ UNCHANGED <<raw, version, vplugins, heroes, hero, pages, curpage, visited, pstate>>
    /\ UNCHANGED outsideParse
    /\ UNCHANGED aux

\* lines 876-883: the next version is popped and its pass starts
PassBegin ==
    /\ pc = "parse" /\ m = <<>> /\ versions # <<>>
    /\ LET ver == Last(versions)
       IN  /\ versions' = Front(versions)
           /\ version' = ver
           /\ version_results' =
                 IF ver \in DOMAIN version_results THEN version_results
                 ELSE [k \in DOMAIN version_results \cup {ver} |->
                          IF k = ver THEN <<>> ELSE version_results[k]]
           /\ pos' = ScanStart
           /\ m' = Search(raw, ScanStart, ver)
    /\ UNCHANGED <<raw, vplugins, heroes, hero, pages, curpage, visited, pstate,
                   status, pc, gen, detect, ver0, all_versions>>
    /\ UNCHANGED outsideParse
    /\ UNCHANGED aux

\* lines 884-891, 894: the match passes the validation and becomes a hero
ScanAccept ==
    /\ pc = "parse" /\ m # <<>>
    /\ Accepts(raw, pos + m[1])
    /\ LET vresult == version_results[version]
           blob == RawSlice(raw, pos + m[1], pos + m[2])
           name == to_unicode(rgx_strip_group1(GroupName(raw, pos + m[1])))
           h == Hero(name, blob, Len(vresult), <<m[1] + pos, m[2] + pos>>,
                     <<gen, version, Len(vresult)>>)
       IN  /\ version_results' = [version_results EXCEPT ![version] = Append(vresult, h)]
           /\ pos' = PosAfterAccept(pos, m)
           /\ m' = Search(raw, PosAfterAccept(pos, m), version)
    /\ UNCHANGED <<raw, version, vplugins, heroes, hero, pages, curpage, visited,
                   pstate, status, pc, gen, detect, ver0, versions, all_versions>>
    /\ UNCHANGED outsideParse
    /\ UNCHANGED aux

\* lines 884-886, 892-894: the match fails the validation and is skipped
ScanReject ==
    /\ pc = "parse" /\ m # <<>>
    /\ ~Accepts(raw, pos + m[1])
    /\ pos' = PosAfterReject(pos, m)
    /\ m' = Search(raw, PosAfterReject(pos, m), version)
    /\ UNCHANGED <<raw, version, vplugins, heroes, hero, pages, curpage, visited,
                   pstate, status, pc, gen, detect, ver0, versions, all_versions,
                   version_results>>
    /\ UNCHANGED outsideParse
    /\ UNCHANGED aux

\* lines 902-915: all passes are done, the version is chosen
ParseEnd ==
    /\ pc = "parse" /\ m = <<>> /\ versions = <<>>
    /\ LET ver == ChosenVersion(all_versions, version_results)
       IN  IF ver # None
           THEN /\ version' = ver
                /\ heroes' = SortedByName(version_results[ver])
                /\ status' = status
           ELSE /\ version' = ver0
                /\ heroes' = <<>>
                /\ status' = TRUE
    /\ pc' = IF caller = "reparse" THEN "reparse" ELSE "idle"
    /\ UNCHANGED <<raw, vplugins, hero, pages, curpage, visited, pstate, gen,
                   detect, ver0, versions, all_versions, version_results, pos, m>>
    /\ UNCHANGED outsideParse
    /\ UNCHANGED aux

-----------------------------------------------------------------------------
(* Selecting and patching heroes *)

parseLocals == <<detect, ver0, versions, all_versions, version_results, pos, m>>

\* Savefile.patch(bytes, span): the bytes replace raw[span[0]:span[1]]; bytes
\* of another length than the span are rejected and the buffer is kept
SavefilePatch(r, bytes, span) ==
    IF Len(bytes) # span[2] - span[1] THEN r
    ELSE [r EXCEPT !.body = SubSeq(r.body, 1, span[1] - r.hdr) \o bytes
                            \o SubSeq(r.body, span[2] - r.hdr + 1, Len(r.body))]

\* a span moved one byte up
PatchSpanShifted(h) == <<h.span[1] + 1, h.span[2] + 1>>

\* line 1058: the span handed to savefile.patch
PatchSpan(h) == h.span

\* the serialized bytes cut or null-padded to the length n
Fitted(bs, n) == [i \in 1..n |-> IF i <= Len(bs) THEN bs[i] ELSE 0]

\* the plugins' bytes fitted to the width of the first record
PatchBytesFitted == Fitted(pstate, RecLen)

\* lines 1055-1057: the bytes the plugins' serialize() leaves in self._hero.bytes
PatchBytes == pstate

\* lines 1053-1058 HeroPlugin.patch: the hero list and the buffer after it
PatchedHeroes == [heroes EXCEPT ![hero].bytes = PatchBytes]
PatchedRaw == SavefilePatch(raw, PatchBytes, PatchSpan(heroes[hero]))

\* index of the tab whose page maps to hero index i
TabOf(ps, i) == CHOOSE k \in 1..Len(ps) : ps[k] = i

MaxVisited == 3

\* Hero.__init__ sets these attributes; any other object lacks some of them
IsHero(x) == DOMAIN x = {"name", "bytes", "place", "span", "id"}

\* an equality that looks at the name only
HeroEqByName(self, other) == IsHero(other) /\ self.name = other.name

\* lines 284-286 Hero.__eq__
HeroEq(self, other) ==
    IsHero(other) /\ <<self.name, self.place>> = <<other.name, other.place>>

\* the list as it is, repetitions kept
KeepRepeated(vis) == vis

\* [v for i, v in enumerate(vis) if not i or v != vis[i - 1]]
RECURSIVE Dedupe(_)
Dedupe(vis) ==
    IF Len(vis) <= 1 THEN vis
    ELSE IF vis[Len(vis)] = vis[Len(vis) - 1] THEN Dedupe(Front(vis))
    ELSE Append(Dedupe(Front(vis)), vis[Len(vis)])

\* [x for x in vis if x != index]
Without(vis, index) == SelectSeq(vis, LAMBDA x : x # index)

\* ps with its k-th element removed
RemoveAt(ps, k) == SubSeq(ps, 1, k - 1) \o SubSeq(ps, k + 1, Len(ps))

\* whether a page maps to hero index i
HasPage(ps, i) == \E k \in 1..Len(ps) : ps[k] = i

\* the part of the plugin's state that the page handlers change
PageState(hs, r, h, ps, cur, vis, pst, exc) ==
    [heroes |-> hs, raw |-> r, hero |-> h, pages |-> ps, curpage |-> cur,
     visited |-> vis, pstate |-> pst, raised |-> exc]

\* the handler's result becomes the state
Becomes(st) ==
    /\ heroes' = st.heroes /\ raw' = st.raw /\ hero' = st.hero /\ pages' = st.pages
    /\ curpage' = st.curpage /\ visited' = st.visited /\ pstate' = st.pstate
    /\ raised' = st.raised

\* lines 836-854 select_index with pages ps and visited vis: the index page is
\* shown, None is appended to the visited list unless it is its last element
select_index(h, ps, vis, pst) ==
    PageState(heroes, raw, h, ps, 0,
              IF vis # <<>> /\ Last(vis) = 0 THEN vis ELSE Append(vis, 0), pst, None)

\* a select_hero that makes the hero at index the current one before it patches
select_hero_patch_late(h, ps, cur, vis, pst, index) ==
    IF index > Len(heroes)
    THEN PageState(heroes, raw, h, ps, cur, vis, pst, None)
    ELSE IF index = h
    THEN IF HasPage(ps, index)
         THEN PageState(heroes, raw, h, ps, TabOf(ps, index), vis, pst, None)
         ELSE PageState(heroes, raw, h, ps, cur, vis, pst, "StopIteration")
    ELSE LET ps2 == IF HasPage(ps, index) THEN ps ELSE Append(ps, index)
             hs2 == IF h # 0 THEN [heroes EXCEPT ![index].bytes = pst] ELSE heroes
             r2  == IF h # 0 THEN SavefilePatch(raw, pst, heroes[index].span) ELSE raw
             vis2 == IF vis # <<>> /\ Last(vis) = index THEN vis ELSE Append(vis, index)
         IN  PageState(hs2, r2, index, ps2, TabOf(ps2, index), vis2,
                       hs2[index].bytes, None)

\* lines 770-817 select_hero(index) with self._hero = h (the current hero, or 0
\* for None), pages ps, selected tab cur, visited vis; index counts from 1
select_hero(h, ps, cur, vis, pst, index) ==
    IF index > Len(heroes)
    THEN PageState(heroes, raw, h, ps, cur, vis, pst, None)
    ELSE IF index = h
    THEN \* select_hero_tab: next(p for p, i in self._pages.items() if i == index)
         IF HasPage(ps, index)
         THEN PageState(heroes, raw, h, ps, TabOf(ps, index), vis, pst, None)
         ELSE PageState(heroes, raw, h, ps, cur, vis, pst, "StopIteration")
    ELSE LET ps2 == IF HasPage(ps, index) THEN ps ELSE Append(ps, index)
             hs2 == IF h # 0 THEN PatchedHeroes ELSE heroes
             r2  == IF h # 0 THEN PatchedRaw ELSE raw
             vis2 == IF vis # <<>> /\ Last(vis) = index THEN vis ELSE Append(vis, index)
         IN  PageState(hs2, r2, index, ps2, TabOf(ps2, index), vis2,
                       hs2[index].bytes, None)

\* select_hero(index) from the hero combobox, an index link or a hero tab
SelectHero(index) ==
    /\ pc = "idle"
    /\ IF Len(visited) < MaxVisited THEN TRUE
       ELSE index > Len(heroes) \/ Last(visited) = index
    /\ Becomes(select_hero(hero, pages, curpage, visited, pstate, index))
    /\ UNCHANGED <<version, vplugins, status, pc, gen, held>>
    /\ UNCHANGED parseLocals
    /\ UNCHANGED reparseLocals
    /\ UNCHANGED aux

\* lines 660-664 on_change_page to the index tab: select_index()
SelectIndex ==
    /\ pc = "idle"
    /\ IF Len(visited) < MaxVisited THEN TRUE ELSE Last(visited) = 0
    /\ Becomes(select_index(hero, pages, visited, pstate))
    /\ UNCHANGED <<version, vplugins, status, pc, gen, held>>
    /\ UNCHANGED parseLocals
    /\ UNCHANGED reparseLocals
    /\ UNCHANGED aux

\* lines 668-684 on_close_page for the k-th hero tab, 0 for the index tab
OnClosePage(k) ==
    /\ pc = "idle"
    /\ k \in 0..Len(pages)
    /\ IF k = 0
       THEN \* lines 672-674: the index page is not in self._pages: event.Veto()
            Becomes(PageState(heroes, raw, hero, pages, curpage, visited, pstate, None))
       ELSE LET index == pages[k]
                ps == RemoveAt(pages, k)
                vis == Dedupe(Without(visited, index))
            IN  IF curpage = k
                THEN IF vis = <<>> \/ Last(vis) = 0
                     THEN Becomes(select_index(0, ps, vis, pstate))
                     ELSE Becomes(select_hero(0, ps, 0, vis, pstate, Last(vis)))
                ELSE Becomes(PageState(heroes, raw, hero, ps,
                                       IF curpage > k THEN curpage - 1 ELSE curpage,
                                       vis, pstate, None))
    /\ UNCHANGED <<version, vplugins, status, pc, gen, held>>
    /\ UNCHANGED parseLocals
    /\ UNCHANGED reparseLocals
    /\ UNCHANGED aux

\* a change of the subplugins' state through their controls: other stats, or
\* a state whose serialization is a byte longer or shorter than the record;
\* "zero" puts the artifact with id 0 into the first worn slot
Edits == {"stats", "grow", "shrink"}
Edited(bs, e) ==
    CASE e = "stats"  -> [bs EXCEPT ![1] = 9, ![Len(bs)] = 3]
      [] e = "zero"   -> [bs EXCEPT ![HeroLayout.artifacts[1] + 1] = 0,
                                    ![HeroLayout.artifacts[1] + 2] = 0,
                                    ![HeroLayout.artifacts[1] + 3] = 255,
                                    ![HeroLayout.artifacts[1] + 4] = 255]
      [] e = "grow"   -> Append(bs, 0)
      [] e = "shrink" -> Front(bs)

PluginChange(e) ==
    /\ pc = "idle" /\ hero # 0
    /\ Len(pstate) = RecLen
    /\ pstate' = Edited(pstate, e)
    /\ UNCHANGED <<raw, version, vplugins, heroes, hero, pages, curpage, visited,
                   status, pc, gen, held, raised>>
    /\ UNCHANGED parseLocals
    /\ UNCHANGED reparseLocals
    /\ UNCHANGED aux

\* lines 649-654 on_plugin_event, action "patch"
OnPluginEventPatch ==
    /\ pc = "idle" /\ hero # 0
    /\ heroes' = PatchedHeroes
    /\ raw' = PatchedRaw
    /\ raised' = None
    /\ UNCHANGED <<version, vplugins, hero, pages, curpage, visited, pstate,
                   status, pc, gen, held>>
    /\ UNCHANGED parseLocals
    /\ UNCHANGED reparseLocals
    /\ UNCHANGED aux

-----------------------------------------------------------------------------
(* HeroPlugin.reparse *)

MaxParses == 2

\* lines 516-530: the open pages are remembered and cleared, parse() is called
Reparse ==
    /\ pc = "idle"
    /\ gen < MaxParses
    /\ hero0' = hero
    /\ pages0' = pages
    /\ heroes0' = heroes
    /\ visited0' = visited
    /\ hero' = 0
    /\ pages' = <<>>
    /\ visited' = <<>>
    /\ caller' = "reparse"
    /\ raised' = None
    /\ ParseBegin(FALSE)
    /\ UNCHANGED <<raw, version, vplugins, heroes, curpage, pstate, held>>
    /\ UNCHANGED aux

\* next(...): the first of the indexes S, 0 (None) if there is none
FirstIndex(S) == IF S = {} THEN 0 ELSE Min(S)

\* the indexes of the heroes equal to h, and of those of the name of h
EqualTo(h) == {j \in 1..Len(heroes) : HeroEq(heroes[j], h)}
NamedAs(h) == {j \in 1..Len(heroes) : heroes[j].name = h.name}

\* a reconciliation by the name only
MatchHeroByName(hero1, index) == FirstIndex(NamedAs(hero1))

\* lines 538-541: the new hero for the old hero1 of a page at index, as an index
\* into the new list, 0 for None
MatchHero(hero1, index) ==
    IF index <= Len(heroes) /\ HeroEq(hero1, heroes[index]) THEN index
    ELSE IF EqualTo(hero1) # {} THEN FirstIndex(EqualTo(hero1))
         ELSE FirstIndex(NamedAs(hero1))

\* lines 536-548: the loop over pages0 from its k-th element on; acc holds the
\* pages added, visited0, the hero to select (an index, 0 for None), the
\* selected tab, self._hero (cur) and the exception raised.  AddPage with
\* select=True sends the page changed event, on which on_change_page calls
\* select_hero with the index kept for the page
RECURSIVE Reconcile(_, _)
Reconcile(k, acc) ==
    IF k > Len(pages0) \/ acc.raised # None THEN acc
    ELSE LET index == pages0[k]
         IN  IF index > Len(heroes0) THEN [acc EXCEPT !.raised = "IndexError"]
             ELSE LET hero1 == heroes0[index]
                      hero2 == MatchHero(hero1, index)
                  IN  IF hero2 = 0
                      THEN Reconcile(k + 1,
                               [acc EXCEPT !.visited = Without(acc.visited, index)])
                      ELSE LET sel == IF acc.hero = 0 /\ hero0 # 0
                                         /\ heroes[hero2].name = heroes0[hero0].name
                                      THEN hero2 ELSE acc.hero
                           IN  Reconcile(k + 1,
                                   [acc EXCEPT
                                       !.pages = Append(acc.pages, index),
                                       !.hero = sel,
                                       \* tabs.AddPage(..., select=hero2 is hero)
                                       !.selected = IF hero2 = sel
                                                    THEN Len(acc.pages) + 1
                                                    ELSE acc.selected,
                                       !.cur = IF hero2 = sel /\ index <= Len(heroes)
                                               THEN index ELSE acc.cur])

\* lines 531-556: the pages are rebuilt from pages0 and a hero is selected
ReparseEnd ==
    /\ pc = "reparse"
    /\ LET r == Reconcile(1, [pages |-> <<>>, visited |-> visited0, hero |-> 0,
                              selected |-> 0, cur |-> 0, raised |-> None])
           v0 == Dedupe(r.visited)
           \* the plugins show the hero selected on the page event
           pst == IF r.cur # 0 THEN heroes[r.cur].bytes ELSE pstate
       IN  IF r.raised # None
           THEN Becomes(PageState(heroes, raw, r.cur, r.pages, r.selected, visited,
                                  pst, r.raised))
           ELSE IF r.hero # 0
           THEN \* select_hero(index): select_hero_tab alone for self._hero, else
                \* the patch of self._hero writes back the bytes it was shown with
                IF r.hero = r.cur
                THEN Becomes(PageState(heroes, raw, r.cur, r.pages,
                                       TabOf(r.pages, r.cur), v0, pst, None))
                ELSE Becomes(select_hero(0, r.pages, r.selected, v0, pst, r.hero))
           ELSE IF v0 = <<>>
           THEN Becomes(PageState(heroes, raw, 0, r.pages, r.selected, v0, pstate, None))
           ELSE IF Last(v0) = 0
           THEN Becomes(PageState(heroes, raw, 0, r.pages, r.selected, v0, pstate,
                                  "TypeError"))
           ELSE IF Last(v0) > Len(heroes)
           THEN Becomes(PageState(heroes, raw, 0, r.pages, r.selected, v0, pstate,
                                  "IndexError"))
           ELSE Becomes(select_hero(0, r.pages, r.selected, v0, pstate, Last(v0)))
    /\ pc' = "idle"
    /\ caller' = None
    /\ hero0' = 0 /\ pages0' = <<>> /\ heroes0' = <<>> /\ visited0' = <<>>
    /\ UNCHANGED <<version, vplugins, status, gen, held>>
    /\ UNCHANGED parseLocals
    /\ UNCHANGED aux

-----------------------------------------------------------------------------
(* get_data, set_data and the copies of heroes *)

MaxHeld == 1

\* a value handed out: a Hero ("copy") or a bytearray ("bytes", held as the
\* bytes of a hero record), the identity of the hero it was made of, and
\* whether it shares the bytearray object of that hero
Handout(kind, h, shares) ==
    [kind |-> kind, hero |-> [h EXCEPT !.id = <<0, kind, h.place>>], of |-> h.id,
     shares |-> shares]

\* a copy that keeps the bytearray of the hero it was made of
ShallowCopy(h) == Handout("copy", h, TRUE)

\* lines 257-267 Hero.copy: Hero(...) is given self.bytes, then update()
\* replaces every attribute by a deep copy
Copy(h) == Handout("copy", h, FALSE)

\* lines 269-272 Hero.get_bytes(): copy.copy(self.bytes)
GetBytesOf(h) == Handout("bytes", h, FALSE)

\* lines 1018-1020 get_data; the caller keeps the copy
GetData ==
    /\ pc = "idle" /\ hero # 0
    /\ Len(held) < MaxHeld
    /\ held' = Append(held, Copy(heroes[hero]))
    /\ raised' = None
    /\ UNCHANGED <<raw, version, vplugins, heroes, hero, pages, curpage, visited,
                   pstate, status, pc, gen>>
    /\ UNCHANGED parseLocals
    /\ UNCHANGED reparseLocals
    /\ UNCHANGED aux

\* the caller of get_bytes() keeps the bytearray
GetBytes ==
    /\ pc = "idle" /\ hero # 0
    /\ Len(held) < MaxHeld
    /\ held' = Append(held, GetBytesOf(heroes[hero]))
    /\ raised' = None
    /\ UNCHANGED <<raw, version, vplugins, heroes, hero, pages, curpage, visited,
                   pstate, status, pc, gen>>
    /\ UNCHANGED parseLocals
    /\ UNCHANGED reparseLocals
    /\ UNCHANGED aux

\* the holder of the k-th copy changes the copy's bytes in place; a bytearray
\* shared with the hero the copy was made of changes for that hero as well
MutateHeld(k) ==
    /\ pc = "idle"
    /\ k \in 1..Len(held)
    /\ held[k].hero.bytes[2] # 77
    /\ held' = [held EXCEPT ![k].hero.bytes[2] = 77]
    /\ heroes' = IF held[k].shares
                 THEN [i \in 1..Len(heroes) |->
                          IF heroes[i].id = held[k].of
                          THEN [heroes[i] EXCEPT !.bytes[2] = 77] ELSE heroes[i]]
                 ELSE heroes
    /\ raised' = None
    /\ UNCHANGED <<raw, version, vplugins, hero, pages, curpage, visited,
                   pstate, status, pc, gen>>
    /\ UNCHANGED parseLocals
    /\ UNCHANGED reparseLocals
    /\ UNCHANGED aux

\* lines 263-267 Hero.update: every attribute is replaced by a copy of the
\* given hero's; the object stays the same
Updated(self, other) ==
    [self EXCEPT !.name = other.name, !.bytes = other.bytes,
                 !.place = other.place, !.span = other.span]

\* lines 1023-1039 set_data(hero) with the k-th held copy.  FlatNotebook's
\* SetSelection sends no page event; its AddPage(select=True) sends the page
\* changed event, on which on_change_page calls select_hero for the new page
SetData(k) ==
    /\ pc = "idle"
    /\ k \in 1..Len(held)
    /\ held[k].kind = "copy"
    /\ Len(visited) < MaxVisited
    /\ LET given == held[k].hero
           index == FirstIndex(EqualTo(given))
       IN  IF index = 0
           THEN Becomes(PageState(heroes, raw, hero, pages, curpage, visited, pstate,
                                  "StopIteration"))
           ELSE LET st == IF HasPage(pages, index)
                          THEN PageState(heroes, raw, hero, pages, TabOf(pages, index),
                                         visited, pstate, None)
                          ELSE select_hero(hero, pages, curpage, visited, pstate, index)
                    h2 == IF st.hero = 0 THEN index ELSE st.hero
                IN  Becomes([st EXCEPT !.hero = h2,
                                       !.heroes[h2] = Updated(st.heroes[h2], given)])
    /\ UNCHANGED <<version, vplugins, status, pc, gen, held>>
    /\ UNCHANGED parseLocals
    /\ UNCHANGED reparseLocals
    /\ UNCHANGED aux

-----------------------------------------------------------------------------
(* Savefile buffers the detection is run on *)

\* a record of the layout: skill-slots-used byte, name capture, worn slots
Record(skill, name, worn) ==
    <<65, skill, 0>> \o name \o <<1, 2, 1>> \o worn \o <<7, 0, 0, 0>> \o <<0>>

WornSome  == <<5, 0, 255, 255, 255, 255, 0, 0>>      \* one artifact, one blank slot
WornBlank == <<255, 255, 1, 1, 255, 255, 1, 1>>      \* blank slots only
WornZero  == <<0, 0, 255, 255, 7, 0, 255, 255>>      \* artifacts 0 and 7

Chunks == <<
    Record(5, <<65, 0, 0, 0>>, WornSome),            \* "A", every version
    Record(0, <<66, 98, 0, 0>>, WornSome),           \* "Bb", not hota
    Record(29, <<97, 32, 99, 0>>, WornBlank),        \* "a c", hota only
    Record(5, <<65, 0, 66, 0>>, WornSome),           \* byte after the padding starts
    Record(5, <<67, 0, 0, 0>>, WornZero),            \* first worn byte is null
    Record(5, <<27, 65, 0, 0>>, WornSome),           \* name starts with a control byte
    \* bytes 3.. of a record "D" that starts in the last 3 bytes of a record
    <<68, 0, 0, 0>> \o <<1, 2, 1>> \o WornSome \o <<7, 0, 0, 0>> \o <<0>>,
    <<65>> >>

MaxChunks == 2

RECURSIVE Bodies(_)
Bodies(n) ==
    IF n = 0 THEN {<<>>}
    ELSE Bodies(n - 1) \cup
         {b \o Chunks[c] : b \in Bodies(n - 1), c \in 1..Len(Chunks)}

\* number of body bytes in front of offset 10000
Leads == {0, 5, RecLen}

VersionPluginLists == {<<>>, <<"ab", "sod", "hota">>}

-----------------------------------------------------------------------------
(* Hero.ensure_basestats *)

\* metadata.PrimaryAttributes; stats, basestats and the bonuses of an artifact
\* are held in this order
PrimaryAttributes == <<"attack", "defense", "power", "knowledge">>

\* metadata.Store.get("artifact_stats"): the bonuses of the artifacts that
\* have an entry
ArtifactStats == [sword |-> <<3, 0, 0, 0>>, shield |-> <<0, 2, 0, 0>>]

\* [a + b for a, b in zip(diff, stats)]
ZipAdd(diff, stats) ==
    [i \in 1..Min({Len(diff), Len(stats)}) |-> diff[i] + stats[i]]

\* every artifact counted once, however many slots hold it
RECURSIVE StatsDiffOnce(_)
StatsDiffOnce(arts) ==
    IF arts = <<>> THEN [i \in 1..Len(PrimaryAttributes) |-> 0]
    ELSE IF Last(arts) \in DOMAIN ArtifactStats
            /\ \A k \in 1..(Len(arts) - 1) : arts[k] # Last(arts)
         THEN ZipAdd(StatsDiffOnce(Front(arts)), ArtifactStats[Last(arts)])
         ELSE StatsDiffOnce(Front(arts))

\* lines 278-280: diff summed over filter(STATS.get, self.artifacts.values())
RECURSIVE StatsDiff(_)
StatsDiff(arts) ==
    IF arts = <<>> THEN [i \in 1..Len(PrimaryAttributes) |-> 0]
    ELSE IF Last(arts) \in DOMAIN ArtifactStats
         THEN ZipAdd(StatsDiff(Front(arts)), ArtifactStats[Last(arts)])
         ELSE StatsDiff(Front(arts))

\* an ensure_basestats that keeps the cache whatever clear is
ensure_basestats_keep(h, clear) ==
    IF h.basestats # <<>> \/ ~h.has THEN h
    ELSE LET diff == StatsDiff(h.artifacts)
         IN  [h EXCEPT !.basestats =
                 [i \in 1..Min({Len(PrimaryAttributes), Len(diff)}) |->
                     h.stats[i] - diff[i]]]

\* lines 274-282 Hero.ensure_basestats(clear); h.has is hasattr(self, "artifacts")
ensure_basestats(h, clear) ==
    LET h1 == IF clear THEN [h EXCEPT !.basestats = <<>>] ELSE h
    IN  IF h1.basestats # <<>> \/ ~h1.has THEN h1
        ELSE LET diff == StatsDiff(h1.artifacts)
             IN  [h1 EXCEPT !.basestats =
                     [i \in 1..Min({Len(PrimaryAttributes), Len(diff)}) |->
                         h1.stats[i] - diff[i]]]

\* what the slots hold: nothing, artifacts with bonuses, an artifact without
Items == {None, "sword", "shield", "book"}
Slots == 2
StatValues == {3, 10}

\* the heroes as the plugins leave them after parse: stats set, artifacts set
\* unless the artifacts plugin did not parse, basestats empty (line 253)
StatsHeroes ==
    {[has |-> b, stats |-> <<a, d, 1, 2>>, artifacts |-> IF b THEN ar ELSE <<>>,
      basestats |-> <<>>] :
        b \in BOOLEAN, a \in StatValues, d \in StatValues, ar \in [1..Slots -> Items]}

\* the state the plugin of a category loads: load_state replaces the stats, or
\* the artifacts, of the hero
LoadState(h, category, state) ==
    IF category = "stats" THEN [h EXCEPT !.stats = state]
    ELSE [h EXCEPT !.artifacts = state, !.has = TRUE]

\* lines 948-953: the loop of on_do over the pasted categories
RECURSIVE OnDoLoop(_, _)
OnDoLoop(h, states) ==
    IF states = <<>> THEN h
    ELSE OnDoLoop(ensure_basestats(LoadState(h, states[1][1], states[1][2]), TRUE),
                  Tail(states))

\* the pasted states: stats, artifacts, or both in either order
PastedStates ==
    LET st == {<<"stats", <<a, 3, 1, 2>>>> : a \in StatValues}
        ar == {<<"artifacts", [s \in 1..Slots |-> IF s = 1 THEN x ELSE y]>> :
                  x \in Items, y \in Items}
    IN  {<<s>> : s \in st \cup ar}
        \cup {<<s, a>> : s \in st, a \in ar} \cup {<<a, s>> : s \in st, a \in ar}

\* lines 575, 578, 784: ensure_basestats() before a hero is shown
EnsureBasestats ==
    /\ shero' = ensure_basestats(shero, FALSE)
    /\ sprev' = shero
    /\ UNCHANGED <<main, gz, clip>>

\* the stats plugin sets a primary attribute and invalidates the cache
StatsChange(i, v) ==
    /\ shero.stats[i] # v
    /\ shero' = ensure_basestats([shero EXCEPT !.stats[i] = v], TRUE)
    /\ sprev' = shero
    /\ UNCHANGED <<main, gz, clip>>

\* the artifacts plugin changes what a slot holds and invalidates the cache
ArtifactsChange(slot, item) ==
    /\ shero.has /\ shero.artifacts[slot] # item
    /\ shero' = ensure_basestats([shero EXCEPT !.artifacts[slot] = item], TRUE)
    /\ sprev' = shero
    /\ UNCHANGED <<main, gz, clip>>

\* lines 945-958 parse_yaml.on_do with the usable states
OnDo(states) ==
    /\ shero' = OnDoLoop(shero, states)
    /\ sprev' = shero
    /\ UNCHANGED <<main, gz, clip>>

NextStats ==
    \/ EnsureBasestats
    \/ \E i \in 1..2, v \in StatValues : StatsChange(i, v)
    \/ \E s \in 1..Slots, it \in Items : ArtifactsChange(s, it)
    \/ \E states \in PastedStates : OnDo(states)

-----------------------------------------------------------------------------
(* main.patch_gzip_for_partial: the replacement of _read_eof *)

\* the longest run of padding
MaxPad == 2

\* the gzip member trailer: CRC32 and ISIZE
TrailerLen == 8

\* no reader
NoReader == [py |-> None, data |-> <<>>, off |-> 0, c |-> <<>>, at |-> "done", exc |-> None]

\* what follows the compressed data of a member: a trailer, whole or cut short,
\* of any bytes, zero padding, and the start of another member or nothing

\* the readers at the call of _read_eof.  "py2": gzip.GzipFile, whose _read has
\* moved the file behind the trailer; "py3": gzip._GzipReader with the method
\* _read_exact; "py311": gzip._GzipReader without it (_read_exact is a
\* function of the module)
Readers ==
    LET Trailers == {[i \in 1..n |-> b] : n \in 0..TrailerLen, b \in {0, 9}}
        Paddings == {[i \in 1..n |-> 0] : n \in 0..MaxPad}
        Tails == {<<>>, <<31>>, <<31, 0>>}
    IN  {[py |-> p, data |-> t \o z \o r, off |-> IF p = "py2" THEN TrailerLen ELSE 0,
          c |-> <<0>>, at |-> "eof", exc |-> None] :
            p \in {"py2", "py3", "py311"}, t \in Trailers, z \in Paddings, r \in Tails}

\* fp.read(n) at offset off of data
FpRead(data, off, n) ==
    IF off >= Len(data) THEN <<>>
    ELSE SubSeq(data, off + 1, Min({off + n, Len(data)}))

\* gzip._GzipReader._read_exact(n): EOFError if the file ends before n bytes
ReadExact(g, n) ==
    IF Len(FpRead(g.data, g.off, n)) < n
    THEN [g EXCEPT !.off = Max({g.off, Len(g.data)}), !.exc = "EOFError", !.at = "raised"]
    ELSE [g EXCEPT !.off = g.off + n]

\* lines 88-89, 98: entry of read_eof_py3 / read_eof_py2
ReadEofEnter ==
    /\ gz.at = "eof"
    /\ gz' = CASE gz.py = "py2" -> [gz EXCEPT !.at = "loop"]
               [] gz.py = "py311" -> [gz EXCEPT !.exc = "AttributeError", !.at = "raised"]
               [] OTHER -> LET g == ReadExact(gz, TrailerLen)
                           IN  IF g.exc # None THEN g ELSE [g EXCEPT !.at = "loop"]
    /\ UNCHANGED <<main, shero, sprev, clip>>

\* lines 94-96, 102-104: while c == b"\x00": c = fp.read(1)
ReadEofLoop ==
    /\ gz.at = "loop"
    /\ gz' = IF gz.c = <<0>>
             THEN [gz EXCEPT !.c = FpRead(gz.data, gz.off, 1),
                             !.off = gz.off + Len(FpRead(gz.data, gz.off, 1))]
             ELSE [gz EXCEPT !.at = "push"]
    /\ UNCHANGED <<main, shero, sprev, clip>>

\* lines 96-97, 104-105: if c: fp.prepend(c) / fileobj.seek(-1, 1)
ReadEofPush ==
    /\ gz.at = "push"
    /\ gz' = IF gz.c # <<>> THEN [gz EXCEPT !.off = gz.off - 1, !.at = "done"]
             ELSE [gz EXCEPT !.at = "done"]
    /\ UNCHANGED <<main, shero, sprev, clip>>

NextGzip == ReadEofEnter \/ ReadEofLoop \/ ReadEofPush

-----------------------------------------------------------------------------
(* serialize_yaml and parse_yaml: the hero as text and back *)

\* values of a plugin state: None, an int, a str (its characters) or a dict
\* (its items in order)
NoneV == [t |-> "none", n |-> 0, s |-> <<>>, d |-> <<>>]
IntV(n) == [t |-> "int", n |-> n, s |-> <<>>, d |-> <<>>]
StrV(s) == [t |-> "str", n |-> 0, s |-> s, d |-> <<>>]
DictV(d) == [t |-> "dict", n |-> 0, s |-> <<>>, d |-> d]

\* Python's "not v"
Falsy(v) ==
    \/ v.t = "none"
    \/ v.t = "int" /\ v.n = 0
    \/ v.t = "str" /\ v.s = <<>>
    \/ v.t = "dict" /\ v.d = <<>>

\* v in (None, {})
NoneOrEmptyDict(v) == v.t = "none" \/ (v.t = "dict" /\ v.d = <<>>)

DigitChars == <<"0", "1", "2", "3", "4", "5", "6", "7", "8", "9">>

\* json.dumps of a non-negative int: its decimal digits
RECURSIVE Digits(_)
Digits(n) ==
    IF n < 10 THEN <<DigitChars[n + 1]>>
    ELSE Append(Digits(n \div 10), DigitChars[(n % 10) + 1])

\* json.dumps of a str of printable characters other than quote and backslash
JsonStr(s) == <<"\"">> \o s \o <<"\"">>

\* lines 993-995 fmt: nothing for None and {}, else the JSON text, a str
\* without its quotes
fmt(v) ==
    IF NoneOrEmptyDict(v) THEN <<>>
    ELSE IF v.t = "str" THEN SubSeq(JsonStr(v.s), 2, Len(JsonStr(v.s)) - 1)
    ELSE Digits(v.n)

\* a (prefix, value) pair: the prefix's lead ("-" opens a list entry, " "
\* continues it, "indent" is a field of a dict state) and its name, if any
Pair(lead, name, text) == [lead |-> lead, name |-> name, text |-> text]

\* v[name] of a dict value, and whether name is in v
DictHas(v, name) == \E k \in 1..Len(v.d) : v.d[k][1] = name
DictGet(v, name) == v.d[CHOOSE k \in 1..Len(v.d) : v.d[k][1] = name][2]

\* lines 1005-1010: the pairs of a dict entry, for the item names from the
\* k-th on; done is whether a pair was made before
RECURSIVE DictItemPairs(_, _, _, _)
DictItemPairs(item, v, k, done) ==
    IF k > Len(item) THEN <<>>
    ELSE IF DictHas(v, item[k])
         THEN <<Pair(IF done THEN " " ELSE "-", item[k], fmt(DictGet(v, item[k])))>>
              \o DictItemPairs(item, v, k + 1, TRUE)
         ELSE DictItemPairs(item, v, k + 1, done)

\* an entry list in which an empty entry leaves no line
ItemPairsSkipEmpty(prop, v) ==
    IF Falsy(v) THEN <<>>
    ELSE IF v.t # "dict" THEN <<Pair("-", None, fmt(v))>>
    ELSE DictItemPairs(prop.item, v, 1, FALSE)

\* lines 1001-1010: the pairs of one entry of an itemlist
ItemPairs(prop, v) ==
    IF Falsy(v) \/ v.t # "dict" THEN <<Pair("-", None, fmt(v))>>
    ELSE DictItemPairs(prop.item, v, 1, FALSE)

\* line 999: while state and not state[-1]: state.pop()
RECURSIVE StripTrailing(_)
StripTrailing(state) ==
    IF state # <<>> /\ Falsy(state[Len(state)]) THEN StripTrailing(Front(state))
    ELSE state

RECURSIVE ItemListPairs(_, _)
ItemListPairs(prop, state) ==
    IF state = <<>> THEN <<>>
    ELSE ItemPairs(prop, state[1]) \o ItemListPairs(prop, Tail(state))

\* lines 997-1014: the pairs of the props from the k-th on; an itemlist prop
\* strips the state's trailing empty entries for the props after it as well
RECURSIVE PropPairs(_, _, _)
PropPairs(props, state, k) ==
    IF k > Len(props) THEN <<>>
    ELSE IF props[k].type = "itemlist"
    THEN ItemListPairs(props[k], StripTrailing(state))
         \o PropPairs(props, StripTrailing(state), k + 1)
    ELSE IF props[k].type # "label"
    THEN <<Pair("indent", props[k].name, fmt(DictGet(state, props[k].name)))>>
         \o PropPairs(props, state, k + 1)
    ELSE PropPairs(props, state, k + 1)

\* lines 984-1015 serialize_plugin_yaml, the pairs
serialize_plugin_yaml(plugin, state) == PropPairs(plugin.props, state, 1)

\* lines 962-981 serialize_yaml: per category its name and its lines, a line
\* being a pair's prefix, padding, and value
serialize_yaml(plugins, states) ==
    [k \in 1..Len(plugins) |->
        <<plugins[k].name, serialize_plugin_yaml(plugins[k], states[k])>>]

\* the value of digits as an int
RECURSIVE IntOf(_)
IntOf(text) ==
    IF text = <<>> THEN 0
    ELSE 10 * IntOf(Front(text))
         + (CHOOSE i \in 0..9 : DigitChars[i + 1] = text[Len(text)])

IsDigits(text) ==
    /\ text # <<>>
    /\ \A k \in 1..Len(text) : \E i \in 1..10 : DigitChars[i] = text[k]
    /\ (Len(text) > 1 => text[1] # "0")

\* yaml.safe_load of a plain scalar: nothing and null are None, digits are an
\* int, other text is a str
Resolve(text) ==
    IF text = <<>> \/ text = <<"n", "u", "l", "l">> \/ text = <<"~">> THEN NoneV
    ELSE IF IsDigits(text) THEN IntV(IntOf(text))
    ELSE StrV(text)

\* yaml.safe_load of lines "name: value" of one mapping
RECURSIVE LoadMapping(_)
LoadMapping(lines) ==
    IF lines = <<>> THEN <<>>
    ELSE <<<<lines[1].name, Resolve(lines[1].text)>>>> \o LoadMapping(Tail(lines))

\* the number of lines from the k-th on that continue a list entry
RECURSIVE Continued(_, _)
Continued(lines, k) ==
    IF k > Len(lines) \/ lines[k].lead # " " THEN 0
    ELSE 1 + Continued(lines, k + 1)

\* yaml.safe_load of the lines of a block sequence
RECURSIVE LoadSequence(_)
LoadSequence(lines) ==
    IF lines = <<>> THEN <<>>
    ELSE IF lines[1].name = None
    THEN <<Resolve(lines[1].text)>> \o LoadSequence(Tail(lines))
    ELSE LET n == 1 + Continued(lines, 2)
         IN  <<DictV(LoadMapping(SubSeq(lines, 1, n)))>>
             \o LoadSequence(SubSeq(lines, n + 1, Len(lines)))

\* yaml.safe_load of a category's lines: None, a dict or a list
safe_load(lines) ==
    IF lines = <<>> THEN [kind |-> "none", v |-> <<>>]
    ELSE IF lines[1].lead = "indent" THEN [kind |-> "dict", v |-> DictV(LoadMapping(lines))]
    ELSE [kind |-> "list", v |-> LoadSequence(lines)]

\* lines 936-937: type(state0)() for a state parsed as None
OrEmpty(plugin, loaded) ==
    IF loaded.kind # "none" THEN loaded
    ELSE IF plugin.kind = "list" THEN [kind |-> "list", v |-> <<>>]
    ELSE [kind |-> "dict", v |-> DictV(<<>>)]

\* lines 929-942: the usable states of the loaded categories from the k-th on
RECURSIVE Usables(_, _, _)
Usables(plugins, text, k) ==
    IF k > Len(text) THEN <<>>
    ELSE LET ps == {j \in 1..Len(plugins) : plugins[j].name = text[k][1]}
         IN  IF ps = {} THEN Usables(plugins, text, k + 1)
             ELSE LET j == CHOOSE j \in ps : TRUE
                      state == OrEmpty(plugins[j], safe_load(text[k][2]))
                  IN  IF state.kind # plugins[j].kind THEN Usables(plugins, text, k + 1)
                      ELSE <<<<j, state.v>>>> \o Usables(plugins, text, k + 1)

\* plugin.load_state(state).  A list-valued plugin: the entries given fill the
\* slots from the first on, an empty value and a slot without a value are the
\* plugin's empty entry.  A dict-valued plugin: the fields given replace the
\* plugin's
load_state(plugin, state0, state) ==
    IF plugin.kind = "list"
    THEN [i \in 1..plugin.slots |->
             IF i <= Len(state) /\ ~Falsy(state[i]) THEN state[i] ELSE plugin.empty]
    ELSE DictV([k \in 1..Len(state0.d) |->
                   IF DictHas(state, state0.d[k][1])
                   THEN <<state0.d[k][1], DictGet(state, state0.d[k][1])>>
                   ELSE state0.d[k]])

\* lines 945-958 on_do: the states after load_state of every usable
RECURSIVE LoadAll(_, _, _)
LoadAll(plugins, states, usables) ==
    IF usables = <<>> THEN states
    ELSE LET j == usables[1][1]
         IN  LoadAll(plugins,
                     [states EXCEPT ![j] = load_state(plugins[j], states[j], usables[1][2])],
                     Tail(usables))

\* the subplugins of the hero page with what serialize_plugin_yaml and
\* parse_yaml read of them: name, props(), the type of state()
ArmySlots == 3
YamlPlugins ==
    << [name |-> "stats", kind |-> "dict", slots |-> 0, empty |-> NoneV,
        props |-> <<[type |-> "label", name |-> "primary", item |-> <<>>],
                    [type |-> "number", name |-> "attack", item |-> <<>>],
                    [type |-> "number", name |-> "mana", item |-> <<>>]>>],
       [name |-> "army", kind |-> "list", slots |-> ArmySlots, empty |-> DictV(<<>>),
        props |-> <<[type |-> "itemlist", name |-> "army", item |-> <<"name", "count">>]>>],
       [name |-> "inventory", kind |-> "list", slots |-> ArmySlots, empty |-> NoneV,
        props |-> <<[type |-> "itemlist", name |-> "inventory", item |-> <<>>]>>] >>

\* the states the subplugins can have
YamlStates ==
    LET Imp == <<"I", "m", "p">>
        OrbOfSilt == <<"O", "r", "b", " ", "o", "f", " ", "S", "i", "l", "t">>
        stats == {DictV(<<<<"attack", IntV(a)>>, <<"mana", IntV(35)>>>>) : a \in {0, 12}}
        slot == {DictV(<<>>), DictV(<<<<"name", StrV(Imp)>>, <<"count", IntV(107)>>>>)}
        item == {NoneV, StrV(OrbOfSilt)}
    IN  {<<s, a, i>> : s \in stats, a \in [1..ArmySlots -> slot],
                       i \in [1..ArmySlots -> item]}

\* clip: the plugins' states, the text (form: what yaml.safe_load makes of it, a
\* mapping of hero name to states if not stated otherwise), the usable states,
\* whether a command was submitted, the number of load_state calls, the states
\* after them, whether one reported a change and whether patch was called
NoClip == [at |-> "none", state |-> <<>>, text |-> <<>>, form |-> "mapping",
           usables |-> <<>>, command |-> FALSE, loads |-> 0, after |-> <<>>,
           changed |-> FALSE, patched |-> FALSE]

\* texts of the clipboard that serialize_yaml did not make: no YAML, YAML whose
\* first value is no mapping, and mappings of categories that are unknown, of
\* the wrong type, empty, or states of a plugin
ClipboardTexts ==
    LET attack(n) == <<Pair("indent", "attack", Digits(n))>>
        imp == <<Pair("-", "name", <<"I", "m", "p">>), Pair(" ", "count", Digits(107))>>
    IN  {[form |-> "invalid", text |-> <<>>],
         [form |-> "scalar", text |-> <<>>],
         [form |-> "mapping", text |-> <<>>],
         [form |-> "mapping", text |-> <<<<"spells", imp>>>>],
         [form |-> "mapping", text |-> <<<<"army", attack(7)>>, <<"stats", imp>>>>],
         [form |-> "mapping", text |-> <<<<"spells", imp>>, <<"stats", attack(12)>>>>],
         [form |-> "mapping", text |-> <<<<"stats", attack(7)>>, <<"army", imp>>>>],
         [form |-> "mapping", text |-> <<<<"inventory", <<>>>>>>]}

\* the user pastes a text of the clipboard
Clipboard(t) ==
    /\ clip.at = "state"
    /\ clip' = [clip EXCEPT !.at = "text", !.text = t.text, !.form = t.form]
    /\ UNCHANGED <<main, shero, sprev, gz>>

\* lines 962-981: the current hero is serialized
SerializeYaml ==
    /\ clip.at = "state"
    /\ clip' = [clip EXCEPT !.at = "text",
                            !.text = serialize_yaml(YamlPlugins, clip.state)]
    /\ UNCHANGED <<main, shero, sprev, gz>>

\* lines 918-943, 959: the text is parsed into the usable states
ParseYaml ==
    /\ clip.at = "text"
    /\ clip' = [clip EXCEPT !.at = "parsed",
                            !.usables = IF clip.form = "mapping"
                                        THEN Usables(YamlPlugins, clip.text, 1)
                                        ELSE <<>>]
    /\ UNCHANGED <<main, shero, sprev, gz>>

\* an on_do that calls patch whatever load_state reports
PasteDoAlwaysPatch ==
    /\ clip.at = "parsed" /\ clip.usables # <<>>
    /\ LET after == LoadAll(YamlPlugins, clip.state, clip.usables)
       IN  clip' = [clip EXCEPT !.at = "done", !.after = after,
                                !.command = TRUE, !.loads = Len(clip.usables),
                                !.changed = (after # clip.state),
                                !.patched = TRUE]
    /\ UNCHANGED <<main, shero, sprev, gz>>

\* lines 943-959: with usable states the command is submitted, and its on_do
\* loads them into the plugins and calls patch if one of them changed
PasteDo ==
    /\ clip.at = "parsed" /\ clip.usables # <<>>
    /\ LET after == LoadAll(YamlPlugins, clip.state, clip.usables)
       IN  clip' = [clip EXCEPT !.at = "done", !.after = after,
                                !.command = TRUE, !.loads = Len(clip.usables),
                                !.changed = (after # clip.state),
                                !.patched = (after # clip.state)]
    /\ UNCHANGED <<main, shero, sprev, gz>>

NextYaml == SerializeYaml \/ ParseYaml \/ PasteDo

NextPaste == NextYaml \/ \E t \in ClipboardTexts : Clipboard(t)


\* no hero and no reader in the parts that are modelled on their own
InitAux ==
    /\ shero = [has |-> FALSE, stats |-> <<>>, artifacts |-> <<>>, basestats |-> <<>>]
    /\ sprev = shero
    /\ gz = NoReader
    /\ clip = NoClip

InitParseLocals ==
    /\ detect = FALSE /\ ver0 = None /\ versions = <<>> /\ all_versions = <<>>
    /\ version_results = <<>> /\ pos = 0 /\ m = <<>>
    /\ caller = "init" /\ hero0 = 0 /\ pages0 = <<>> /\ heroes0 = <<>>
    /\ visited0 = <<>> /\ held = <<>> /\ raised = None

InitDetect ==
    /\ raw \in {[hdr |-> 10000 - l, body |-> b] : l \in Leads, b \in Bodies(MaxChunks)}
    /\ version \in {None, "sod"}
    /\ vplugins \in VersionPluginLists
    /\ heroes = <<>> /\ hero = 0 /\ pages = <<>> /\ curpage = 0 /\ visited = <<>>
    /\ pstate = <<>> /\ status = FALSE /\ pc = "new" /\ gen = 0
    /\ InitParseLocals
    /\ InitAux

NextDetect == Construct \/ PassBegin \/ ScanAccept \/ ScanReject \/ ParseEnd

SpecDetect == InitDetect /\ [][NextDetect]_vars

\* parse runs on one thread and is not interrupted: its next step is taken
SpecDetectFair == SpecDetect /\ WF_vars(NextDetect)

\* savefiles with two heroes
Init ==
    /\ raw \in {[hdr |-> 10000, body |-> Chunks[1] \o Chunks[8] \o Chunks[2]],
                [hdr |-> 10000, body |-> Chunks[4] \o Chunks[2] \o Chunks[1]]}
    /\ version = "sod"
    /\ vplugins \in VersionPluginLists
    /\ heroes = <<>> /\ hero = 0 /\ pages = <<>> /\ curpage = 0 /\ visited = <<>>
    /\ pstate = <<>> /\ status = FALSE /\ pc = "new" /\ gen = 0
    /\ InitParseLocals
    /\ InitAux

Next ==
    \/ NextDetect
    \/ \E i \in 1..(Len(heroes) + 1) : SelectHero(i)
    \/ \E e \in Edits : PluginChange(e)
    \/ OnPluginEventPatch

Spec == Init /\ [][Next]_vars

\* the page handlers, reparse and the hero copies besides
NextPages ==
    \/ NextDetect
    \/ \E i \in 1..(Len(heroes) + 1) : SelectHero(i)
    \/ PluginChange("zero")
    \/ OnPluginEventPatch
    \/ SelectIndex
    \/ \E k \in 0..Len(pages) : OnClosePage(k)
    \/ Reparse
    \/ ReparseEnd

SpecPages == Init /\ [][NextPages]_vars

\* a savefile with three heroes, two of them of one name, and a rejected match
InitData ==
    /\ raw = [hdr |-> 10000, body |-> Chunks[1] \o Chunks[2] \o Chunks[5] \o Chunks[1]]
    /\ version = "sod"
    /\ vplugins = <<>>
    /\ heroes = <<>> /\ hero = 0 /\ pages = <<>> /\ curpage = 0 /\ visited = <<>>
    /\ pstate = <<>> /\ status = FALSE /\ pc = "new" /\ gen = 0
    /\ InitParseLocals
    /\ InitAux

\* the hero copies handed out and given back
NextData ==
    \/ NextDetect
    \/ \E i \in 1..(Len(heroes) + 1) : SelectHero(i)
    \/ PluginChange("stats")
    \/ OnPluginEventPatch
    \/ Reparse
    \/ ReparseEnd
    \/ GetData
    \/ GetBytes
    \/ \E k \in 1..Len(held) : MutateHeld(k)
    \/ \E k \in 1..Len(held) : SetData(k)

SpecData == InitData /\ [][NextData]_vars

\* a hero of the bounded set; the savefile and the plugin stay as constructed
InitStats ==
    /\ raw = [hdr |-> 10000, body |-> <<>>]
    /\ version = "sod"
    /\ vplugins = <<>>
    /\ heroes = <<>> /\ hero = 0 /\ pages = <<>> /\ curpage = 0 /\ visited = <<>>
    /\ pstate = <<>> /\ status = FALSE /\ pc = "new" /\ gen = 0
    /\ InitParseLocals
    /\ shero \in StatsHeroes
    /\ sprev = shero
    /\ gz = NoReader
    /\ clip = NoClip

SpecStats == InitStats /\ [][NextStats]_vars

\* a reader of the bounded set; the savefile and the plugin stay as constructed
InitGzip ==
    /\ raw = [hdr |-> 10000, body |-> <<>>]
    /\ version = "sod"
    /\ vplugins = <<>>
    /\ heroes = <<>> /\ hero = 0 /\ pages = <<>> /\ curpage = 0 /\ visited = <<>>
    /\ pstate = <<>> /\ status = FALSE /\ pc = "new" /\ gen = 0
    /\ InitParseLocals
    /\ shero = [has |-> FALSE, stats |-> <<>>, artifacts |-> <<>>, basestats |-> <<>>]
    /\ sprev = shero
    /\ gz \in Readers
    /\ clip = NoClip

SpecGzip == InitGzip /\ [][NextGzip]_vars

\* the subplugins in a state of the bounded set; the savefile and the plugin stay
\* as constructed
InitYaml ==
    /\ raw = [hdr |-> 10000, body |-> <<>>]
    /\ version = "sod"
    /\ vplugins = <<>>
    /\ heroes = <<>> /\ hero = 0 /\ pages = <<>> /\ curpage = 0 /\ visited = <<>>
    /\ pstate = <<>> /\ status = FALSE /\ pc = "new" /\ gen = 0
    /\ InitParseLocals
    /\ shero = [has |-> FALSE, stats |-> <<>>, artifacts |-> <<>>, basestats |-> <<>>]
    /\ sprev = shero
    /\ gz = NoReader
    /\ clip \in {[NoClip EXCEPT !.at = "state", !.state = s] : s \in YamlStates}

SpecYaml == InitYaml /\ [][NextYaml]_vars

SpecPaste == InitYaml /\ [][NextPaste]_vars

\* a savefile with two heroes and a rejected match
InitFrame ==
    /\ raw = [hdr |-> 10000, body |-> Chunks[1] \o Chunks[5] \o Chunks[2]]
    /\ version = "sod"
    /\ vplugins = <<>>
    /\ heroes = <<>> /\ hero = 0 /\ pages = <<>> /\ curpage = 0 /\ visited = <<>>
    /\ pstate = <<>> /\ status = FALSE /\ pc = "new" /\ gen = 0
    /\ InitParseLocals
    /\ InitAux

\* every operation on the plugin and on the objects it hands out
NextFrame ==
    \/ NextDetect
    \/ \E i \in 1..(Len(heroes) + 1) : SelectHero(i)
    \/ PluginChange("stats")
    \/ OnPluginEventPatch
    \/ SelectIndex
    \/ \E k \in 0..Len(pages) : OnClosePage(k)
    \/ Reparse
    \/ ReparseEnd
    \/ GetData
    \/ GetBytes
    \/ \E k \in 1..Len(held) : MutateHeld(k)
    \/ \E k \in 1..Len(held) : SetData(k)

SpecFrame == InitFrame /\ [][NextFrame]_vars

-----------------------------------------------------------------------------
(* Properties of the detection, checked under SpecDetect *)

Count(k) == Len(version_results[k])
MaxCount == Max({Count(k) : k \in DOMAIN version_results})
Spans(hs) == {hs[i].span : i \in 1..Len(hs)}
Elems(hs) == {hs[i] : i \in 1..Len(hs)}

\* parse has returned from a detection over candidate version names
Detected == pc = "idle" /\ detect /\ \A i \in 1..Len(all_versions) : all_versions[i] # None

\* C1: after parse(detect_version=True) over candidate versions of which at
\* least one yields a hero, the savefile's version is one whose pass yielded
\* the greatest hero count, and the hero list holds exactly the heroes of that
\* version's pass, none of another pass.
C1_GreatestCountVersion ==
    (Detected /\ MaxCount > 0) =>
        /\ version \in DOMAIN version_results
        /\ Count(version) = MaxCount
        /\ Len(heroes) = Count(version)
        /\ Elems(heroes) = Elems(version_results[version])
        /\ \A i \in 1..Len(heroes) : heroes[i].id[2] = version

C1_Witness ==
    /\ Detected /\ vplugins # <<>>
    /\ version = "sod" /\ Count("sod") = 2 /\ Count("hota") = 1
    /\ Len(heroes) = 2 /\ heroes[1].place = 1

\* the candidates whose pass yielded the greatest count, by index in the list
TiedIndexes == {i \in 1..Len(all_versions) : Count(all_versions[i]) = MaxCount}

\* C2 as stated: on a tie for the greatest hero count parse selects the tied
\* version tried latest in the newest-to-oldest traversal, which pops from the
\* end of the candidate list, i.e. the tied version listed first (the older).
C2_TieToLatestTried ==
    (Detected /\ MaxCount > 0 /\ Cardinality(TiedIndexes) > 1) =>
        version = all_versions[Min(TiedIndexes)]

\* C2 amended: on a tie for the greatest hero count parse selects the tied
\* version listed last in the candidate list, which is the tied version tried
\* first in the traversal (the newest); the choice depends on the counts and
\* the candidate list only.
C2_TieToLastListed ==
    (Detected /\ MaxCount > 0 /\ Cardinality(TiedIndexes) > 1) =>
        version = all_versions[Max(TiedIndexes)]

C2_Witness ==
    /\ Detected /\ MaxCount > 0
    /\ TiedIndexes = {1, 2}
    /\ version = "sod"

\* C3: when every candidate version's pass yields zero heroes, after parse the
\* savefile's version equals its value before parse, the hero list is empty
\* and the "No heroes identified" status is issued.
C3_NoHeroesKeepsVersion ==
    (pc = "idle" /\ MaxCount = 0) =>
        /\ version = ver0
        /\ heroes = <<>>
        /\ status

-----------------------------------------------------------------------------
(* Properties of one step of the scan loop *)

\* a match is under examination; its absolute start offset
Examining == pc = "parse" /\ m # <<>>
MatchStart == pos + m[1]

\* the step appends a hero to the pass's result
Appends == Len(version_results'[version]) = Len(version_results[version]) + 1
Appended == version_results'[version][Len(version_results'[version])]

\* a run of at least one allowed byte, then null bytes only to the end
PaddedName(n) ==
    \E k \in 1..(Len(n) - 1) :
        /\ \A j \in 1..k : n[j] \notin (0..25) \cup {44} \cup (240..255)
        /\ \A j \in (k + 1)..Len(n) : n[j] = 0
NameRun(n) == SubSeq(n, 1, Min({j \in 1..Len(n) : n[j] = 0}) - 1)

\* C6: a span that matches the pattern is accepted only if its name capture is
\* a non-empty run of allowed bytes followed by null bytes only; a capture with
\* a non-null byte after the first null byte is rejected, one with a printable
\* first byte and null padding is accepted (the worn slots permitting), no
\* accepted capture starts with a control byte, and the hero's name is the run.
C6_NameCapture ==
    [][Examining =>
        LET n == GroupName(raw, MatchStart)
        IN  /\ Appends => /\ PaddedName(n)
                          /\ n[1] \notin 0..31
                          /\ Appended.name = to_unicode(NameRun(n))
                          /\ Appended.span[1] = MatchStart
            /\ (PaddedName(n) /\ ~rgx_nulls_match(GroupArtifacts(raw, MatchStart)))
                  => Appends
            /\ (\E i, j \in 1..Len(n) : i < j /\ n[i] = 0 /\ n[j] # 0) => ~Appends
    ]_vars

\* the window at offset t matches the pattern of the chosen version
Window(t) == t \in 0..(RawLen(raw) - RecLen) /\ MatchAt(raw, t, version)

C6_Witness ==
    /\ pc = "idle" /\ version = "sod"
    /\ Window(10000) /\ ~PaddedName(GroupName(raw, 10000))
    /\ Window(10000 + RecLen) /\ PaddedName(GroupName(raw, 10000 + RecLen))
    /\ Spans(heroes) = {<<10000 + RecLen, 10000 + 2 * RecLen>>}

\* every worn slot of the capture is in the blank encoding (FF FF FF FF ....)
AllBlank(a) == \A i \in 0..(Len(a) \div 4 - 1) : a[4 * i + 1] = 255 /\ a[4 * i + 2] = 255

\* C7 as stated: a span that matches the pattern and has a valid name is
\* rejected if and only if every slot of its worn-equipment capture is blank.
C7_RejectedIffAllBlank ==
    [][(Examining /\ PaddedName(GroupName(raw, MatchStart))) =>
        (~Appends <=> AllBlank(GroupArtifacts(raw, MatchStart)))]_vars

\* C7 amended: a span that matches the pattern and has a valid name is
\* rejected if and only if the first byte of its worn-equipment capture is
\* null; a capture of blank slots only is accepted.
C7_RejectedIffFirstWornByteNull ==
    [][(Examining /\ PaddedName(GroupName(raw, MatchStart))) =>
        /\ ~Appends <=> GroupArtifacts(raw, MatchStart)[1] = 0
        /\ AllBlank(GroupArtifacts(raw, MatchStart)) => Appends]_vars

C7_Witness ==
    /\ pc = "idle" /\ version = "hota"
    /\ Spans(heroes) = {<<10000, 10000 + RecLen>>}
    /\ AllBlank(GroupArtifacts(raw, 10000))
    /\ Window(10000 + RecLen) /\ PaddedName(GroupName(raw, 10000 + RecLen))
    /\ GroupArtifacts(raw, 10000 + RecLen)[1] = 0
    /\ ~AllBlank(GroupArtifacts(raw, 10000 + RecLen))

-----------------------------------------------------------------------------
(* Properties of a detection pass *)

AllDetected == UNION {Elems(version_results[k]) : k \in DOMAIN version_results}

\* C8: every hero of every pass has span[0] >= 10000, and a buffer shorter
\* than 10000 + the pattern length yields no hero for any version.
C8_NoHeroBelowScanStart ==
    /\ \A h \in AllDetected \cup Elems(heroes) : h.span[1] >= 10000
    /\ RawLen(raw) < 10000 + RecLen => AllDetected = {} /\ heroes = <<>>

C8_Witness ==
    /\ pc = "idle" /\ version = "sod"
    /\ Window(10000 - RecLen) /\ Accepts(raw, 10000 - RecLen)
    /\ Spans(heroes) = {<<10000, 10000 + RecLen>>}

\* C9: within one pass the accepted spans are pairwise non-overlapping and
\* ascending in detection order, and after an accepted match the next search
\* starts at that match's end offset.
C9_SpansAscending ==
    /\ [](\A k \in DOMAIN version_results : \A i \in 1..(Count(k) - 1) :
            /\ version_results[k][i].span[1] < version_results[k][i].span[2]
            /\ version_results[k][i].span[2] <= version_results[k][i + 1].span[1])
    /\ [][(Examining /\ Appends) =>
            /\ pos' = Appended.span[2]
            /\ m' # <<>> => pos' + m'[1] >= Appended.span[2]]_vars

C9_Witness ==
    /\ pc = "idle" /\ version = "sod"
    /\ Spans(heroes) = {<<10000, 10000 + RecLen>>, <<10000 + RecLen, 10000 + 2 * RecLen>>}

\* the offsets of the pass of version k that the scan has gone past
Scanned(k) ==
    IF pc = "parse" /\ k = version /\ m # <<>>
    THEN 10000..(MatchStart - 1) ELSE 10000..(RawLen(raw) - RecLen)

\* C10: a match at offset s that fails the validation is skipped and the scan
\* resumes at s + 1, so a valid record at a later offset is still detected,
\* also one that overlaps the rejected span, unless it overlaps a hero
\* accepted before it.
C10_ResumeAfterReject ==
    /\ [](\A k \in DOMAIN version_results : \A t \in Scanned(k) :
            (MatchAt(raw, t, k) /\ Accepts(raw, t)) =>
                \/ \E h \in Elems(version_results[k]) : h.span[1] = t
                \/ \E h \in Elems(version_results[k]) : h.span[1] < t /\ t < h.span[2])
    /\ [][(Examining /\ ~Appends) =>
            /\ pos' = MatchStart + 1
            /\ version_results' = version_results
            /\ pc' = "parse"]_vars

C10_Witness ==
    /\ pc = "idle" /\ version = "sod"
    /\ Window(10000) /\ ~Accepts(raw, 10000)
    /\ Spans(heroes) = {<<10000 + RecLen - 3, 10000 + 2 * RecLen - 3>>}

-----------------------------------------------------------------------------
(* Properties of patching, checked under Spec *)

\* a hero is selected whose plugins' bytes have (not) the width of its span
Width(h) == h.span[2] - h.span[1]
Selected == pc = "idle" /\ hero # 0
AllSpans(hs) == [i \in 1..Len(hs) |-> hs[i].span]

\* C4: a patch of the current hero with span [s, e) leaves the buffer's length
\* and every byte at an offset < s or >= e as they were; this holds for every
\* patch of every hero, whatever was patched before.
C4_PatchFrame ==
    [][raw' # raw =>
        /\ Selected
        /\ RawLen(raw') = RawLen(raw)
        /\ \A i \in 0..(RawLen(raw) - 1) :
              (i < heroes[hero].span[1] \/ i >= heroes[hero].span[2])
                  => RawAt(raw', i) = RawAt(raw, i)
        /\ RawSlice(raw', heroes[hero].span[1], heroes[hero].span[2]) = pstate
    ]_vars

\* both heroes of the file have been patched, one after the other
C4_Witness ==
    /\ Selected /\ Len(heroes) = 2
    /\ \A i \in 1..2 :
          /\ RawAt(raw, heroes[i].span[1]) = 9
          /\ RawAt(raw, heroes[i].span[2] - 1) = 3
          /\ RawSlice(raw, heroes[i].span[1], heroes[i].span[2]) = heroes[i].bytes
    /\ \E i \in 0..(RawLen(raw) - 1) :
          /\ \A j \in 1..2 : i < heroes[j].span[1] \/ i >= heroes[j].span[2]
          /\ i >= 10000

\* C5: when the bytes serialize() produced for the current hero have another
\* length than its span, a patch leaves the buffer and every hero's span as
\* they were.
C5_PatchRejected ==
    [][(Selected /\ Len(pstate) # Width(heroes[hero])) =>
        /\ raw' = raw
        /\ AllSpans(heroes') = AllSpans(heroes)]_vars

\* a patch of edited bytes of another length was attempted and left the buffer
C5_Witness ==
    /\ Selected
    /\ Len(heroes[hero].bytes) # Width(heroes[hero])
    /\ heroes[hero].bytes[1] = 9
    /\ RawAt(raw, heroes[hero].span[1]) = 65

-----------------------------------------------------------------------------
(* C11: equality of heroes *)

\* the Hero objects of a state: the hero list, the lists of the passes, the
\* list kept by reparse and the copies handed out
HeroObjects ==
    Elems(heroes) \cup Elems(heroes0)
    \cup UNION {Elems(version_results[v]) : v \in DOMAIN version_results}
    \cup {held[k].hero : k \in {j \in 1..Len(held) : held[j].kind = "copy"}}

\* objects that are no Hero: a (name, place) pair and a bytearray of x
NonHeroes(x) == {[name |-> x.name, place |-> x.place], [bytes |-> x.bytes]}

\* no two distinct entries of hs compare equal
NoTwoEqual(hs) == \A i, j \in 1..Len(hs) : i # j => ~HeroEq(hs[i], hs[j])

\* C11: two Hero objects compare equal iff their names and their places are
\* the same, whatever their bytes, span and identity; a Hero equals no object
\* that is not a Hero; no two distinct entries of the list of a pass, or of the
\* hero list as parse leaves it, compare equal
C11_HeroEquality ==
    /\ \A x, y \in HeroObjects :
          HeroEq(x, y) <=> (x.name = y.name /\ x.place = y.place)
    /\ \A x \in HeroObjects : \A o \in NonHeroes(x) : ~HeroEq(x, o)
    /\ \A v \in DOMAIN version_results : NoTwoEqual(version_results[v])
    /\ pc = "reparse" => NoTwoEqual(heroes)

\* reparse holds an old and a new hero that are equal with different bytes, and
\* the new list has another hero of that name that is not equal to them
C11_Witness ==
    /\ pc = "reparse"
    /\ \E x \in Elems(heroes0), y \in Elems(heroes) :
          /\ x.id # y.id /\ x.bytes # y.bytes /\ HeroEq(x, y)
          /\ \E z \in Elems(heroes) : z.name = y.name /\ ~HeroEq(z, y)

-----------------------------------------------------------------------------
(* C12: order of the hero list *)

\* hs ascends by lower-cased name, heroes of one lower-cased name by place
SortedByNameThenPlace(hs) ==
    \A i, j \in 1..Len(hs) :
        i < j => \/ StrLess(Lower(hs[i].name), Lower(hs[j].name))
                 \/ /\ Lower(hs[i].name) = Lower(hs[j].name)
                    /\ hs[i].place <= hs[j].place

\* C12: the hero list is sorted ascending by lower-cased name, heroes of equal
\* lower-cased names in ascending place, after every parse and reparse and
\* after every select, close, patch and set_data in between
C12_HeroesSorted == SortedByNameThenPlace(heroes)

-----------------------------------------------------------------------------
(* C13: reconciliation of the open pages at reparse *)

\* the result of the loop of reparse over pages0
Reconciled ==
    Reconcile(1, [pages |-> <<>>, visited |-> visited0, hero |-> 0,
                  selected |-> 0, cur |-> 0, raised |-> None])

\* the old heroes of pages0 that have no hero of their name in the new list
Unmatched == {i \in Elems(pages0) : NamedAs(heroes0[i]) = {}}

\* the loop drops the page of every unmatched old hero and removes its index
\* from the visited list
DropsUnmatched ==
    \A i \in Unmatched :
        /\ ~HasPage(Reconciled.pages, i) \/ MatchHero(heroes0[i], i) # 0
        /\ \A k \in 1..Len(Reconciled.visited) : Reconciled.visited[k] # i

\* C13: at reparse an old hero of an open page with no hero of its name in the
\* new list has its page dropped and its index removed from the visited list,
\* and reparse returns without an error
C13_DropWithoutError ==
    [][(pc = "reparse" /\ Unmatched # {}) => (DropsUnmatched /\ raised' = None)]_vars

-----------------------------------------------------------------------------
(* C14, C15: base stats *)

\* the bonus for the i-th primary attribute, summed slot by slot; a slot
\* whose artifact has no entry in the table contributes 0
RECURSIVE BonusSum(_, _)
BonusSum(arts, i) ==
    IF arts = <<>> THEN 0
    ELSE BonusSum(Tail(arts), i)
         + (IF Head(arts) \in DOMAIN ArtifactStats THEN ArtifactStats[Head(arts)][i]
            ELSE 0)

\* the base stats of h by the stated formula
BaseStats(h) ==
    [i \in 1..Len(PrimaryAttributes) |-> h.stats[i] - BonusSum(h.artifacts, i)]

\* C14: ensure_basestats() on a hero with empty basestats and parsed stats and
\* artifacts sets basestats[k] = stats[k] minus the summed bonuses for k of the
\* equipped artifacts that have an entry in the table; a hero without the
\* artifacts attribute gets no basestats
C14_BaseStats ==
    LET r == ensure_basestats(shero, FALSE)
    IN  /\ (shero.has /\ shero.basestats = <<>>) => r.basestats = BaseStats(shero)
        /\ ~shero.has => r.basestats = <<>>
        /\ r.stats = shero.stats /\ r.artifacts = shero.artifacts

\* ensure_basestats() has filled the empty basestats of a hero of attack 10
\* with one sword (+3 attack) and an artifact without an entry: base attack 7
C14_Witness ==
    /\ sprev.basestats = <<>> /\ sprev.has
    /\ shero.stats = sprev.stats /\ shero.artifacts = sprev.artifacts
    /\ shero.stats[1] = 10 /\ shero.artifacts = <<"sword", "book">>
    /\ shero.basestats # <<>> /\ shero.basestats[1] = 7

\* C15: after a change of the equipment or of the primary attributes the next
\* ensure_basestats() yields the base stats of the new equipment and
\* attributes, never those cached before the change
C15_CacheInvalidated ==
    (shero.has /\ (sprev.stats # shero.stats \/ sprev.artifacts # shero.artifacts))
        => ensure_basestats(shero, FALSE).basestats = BaseStats(shero)

\* the sword has been removed from a hero of attack 10 whose cached base
\* attack was 7: the base attack is 10
C15_Witness ==
    /\ sprev.has /\ sprev.basestats # <<>> /\ sprev.basestats[1] = 7
    /\ \E s \in 1..Slots : sprev.artifacts[s] = "sword"
    /\ \A s \in 1..Slots : shero.artifacts[s] # "sword"
    /\ shero.stats[1] = 10 /\ shero.basestats # <<>> /\ shero.basestats[1] = 10

-----------------------------------------------------------------------------
(* C16: what modifies the savefile buffer *)

\* the steps of parse, reparse, select_index, on_close_page, get_data,
\* get_bytes and of a holder changing a copy
NoPatchStep ==
    \/ NextDetect \/ Reparse \/ ReparseEnd \/ SelectIndex
    \/ \E k \in 0..Len(pages) : OnClosePage(k)
    \/ GetData \/ GetBytes
    \/ \E k \in 1..Len(held) : MutateHeld(k)

\* a step of set_data
SetDataStep == \E k \in 1..Len(held) : SetData(k)

\* a step that hands out a copy or changes one
CopyStep == GetData \/ GetBytes \/ \E k \in 1..Len(held) : MutateHeld(k)

\* the buffer is what patch() of the selected hero makes of it
ByPatch == pc = "idle" /\ hero # 0 /\ raw' = PatchedRaw

-----------------------------------------------------------------------------
(* C17: the passes of parse *)

\* parse tries the version plugins
Detecting == detect /\ vplugins # <<>>

\* C17: parse(detect_version=False), and parse without version plugins, runs
\* one pass, with the version the savefile has at the call, and leaves that
\* version in place, heroes found or not; parse(detect_version=True) with
\* version plugins runs one pass per plugin, from the last listed to the first
C17_Passes ==
    /\ [](pc = "parse" =>
            /\ all_versions = (IF Detecting THEN vplugins ELSE <<ver0>>)
            /\ ~Detecting /\ version_results # <<>> => version = ver0)
    /\ []((pc \in {"idle", "reparse"} /\ gen > 0) =>
            /\ versions = <<>>
            /\ DOMAIN version_results = {all_versions[i] : i \in 1..Len(all_versions)}
            /\ ~Detecting => (all_versions = <<ver0>> /\ version = ver0))
    /\ [][PassBegin =>
            /\ Len(versions') = Len(versions) - 1
            /\ version' = all_versions[Len(versions)]]_vars

\* reparse has parsed with detect_version=False while version plugins exist:
\* one pass with the savefile's version, no hero found, the version kept
C17_Witness ==
    /\ pc = "reparse" /\ ~detect /\ vplugins # <<>>
    /\ all_versions = <<ver0>> /\ heroes = <<>> /\ version = ver0
    /\ heroes0 # <<>>

-----------------------------------------------------------------------------
(* C19: the end-of-stream handler *)

\* the offset of the first non-zero byte behind the trailer, the end of the
\* input if there is none
BehindPadding(data) ==
    Min({i \in TrailerLen..(Len(data) - 1) : data[i + 1] # 0}
        \cup {Max({Len(data), TrailerLen})})

\* the handler leaves the file at the first non-zero byte behind the trailer
PositionedBehindPadding == (gz.at = "done" /\ gz.py # None) => gz.off = BehindPadding(gz.data)

\* C19: the end-of-stream handler never fails because of the trailer: it
\* consumes the trailer without comparing checksum or length, consumes the
\* zero padding behind it and leaves the file at the first non-zero byte, or
\* at the end of the input
C19_EofNeverFails == gz.exc = None /\ PositionedBehindPadding

-----------------------------------------------------------------------------
(* C20: termination of the detection *)

\* an iteration of the scan loop, lines 884-894
ScanStep == ScanAccept \/ ScanReject

\* the iteration moves the scan offset forward, and not behind the buffer's end
Advances == pos < pos' /\ pos' <= RawLen(raw)

\* C20: every detection pass terminates: an iteration of the scan loop
\* strictly increases the scan offset, to the match end after an accepted
\* match and to the match start + 1 after a rejected one, and never behind
\* the end of the buffer, so that a pass has at most as many iterations as
\* the buffer has bytes; a pass takes one candidate version off the list, and
\* parse comes to its end
C20_ParseTerminates ==
    /\ [][ScanStep => Advances]_vars
    /\ [][ScanAccept => pos' = pos + m[2]]_vars
    /\ [][ScanReject => pos' = pos + m[1] + 1]_vars
    /\ [][PassBegin => Len(versions') = Len(versions) - 1]_vars
    /\ [][ParseEnd => versions = <<>> /\ m = <<>>]_vars
    /\ <>(pc = "idle")

\* parse has ended after passes for several candidate versions, in which
\* matches were accepted and the scan went on behind them
C20_Witness ==
    /\ pc = "idle" /\ gen > 0
    /\ Len(all_versions) >= 2 /\ versions = <<>>
    /\ Len(heroes) >= 2
    /\ pos > ScanStart

-----------------------------------------------------------------------------
(* C18: the YAML round trip *)

\* the parsed list holds the entries of the state up to its last filled one, an
\* empty entry at the place of each empty one
KeepsPositions(parsed, state) ==
    /\ Len(parsed) = Len(StripTrailing(state))
    /\ \A i \in 1..Len(parsed) :
          IF Falsy(state[i]) THEN Falsy(parsed[i]) ELSE parsed[i] = state[i]

\* what parse_yaml made of the text is, for every category, the plugin's state
AllParsedBack ==
    /\ Len(clip.usables) = Len(YamlPlugins)
    /\ \A k \in 1..Len(clip.usables) :
          LET j == clip.usables[k][1]
          IN  IF YamlPlugins[j].kind = "list"
              THEN KeepsPositions(clip.usables[k][2], clip.state[j])
              ELSE clip.usables[k][2] = clip.state[j]

\* C18: the text serialize_yaml gives for the current hero, fed to parse_yaml,
\* gives back for every plugin category the plugin's state: load_state reports
\* no change, so that no patch is issued; the empty interior entries of a
\* list-valued category keep their positions and only the trailing empty
\* entries are dropped
C18_YamlRoundTrip ==
    /\ clip.at \in {"parsed", "done"} => AllParsedBack
    /\ clip.at = "done" => ~clip.changed /\ clip.after = clip.state

\* the round trip of a hero whose army has an empty slot before a filled one
\* and an empty last slot, and whose inventory has the same
C18_Witness ==
    /\ clip.at = "done"
    /\ Falsy(clip.state[2][1]) /\ ~Falsy(clip.state[2][2]) /\ Falsy(clip.state[2][3])
    /\ Falsy(clip.state[3][1]) /\ ~Falsy(clip.state[3][2]) /\ Falsy(clip.state[3][3])
    /\ Len(clip.usables[2][2]) = 2

-----------------------------------------------------------------------------
(* C21: closing a page *)

\* the visited list without the closed page's hero index
VisitedLeft(k) == Dedupe(Without(visited, pages[k]))

\* the active hero page is closed: its page and its index in the visited list
\* are gone, and the most recently visited open hero page is selected, or the
\* index page with no hero selected
ClosedActive(k) ==
    /\ pages' = RemoveAt(pages, k)
    /\ \A i \in 1..Len(visited') : visited'[i] # pages[k]
    /\ IF VisitedLeft(k) = <<>>
       THEN hero' = 0 /\ curpage' = 0
       ELSE IF Last(VisitedLeft(k)) = 0
       THEN hero' = 0 /\ curpage' = 0
       ELSE /\ hero' = Last(VisitedLeft(k))
            /\ HasPage(pages', hero')
            /\ curpage' # 0 /\ pages'[curpage'] = hero'

\* another hero page is closed: the page shown and the hero selected stay
ClosedOther(k) ==
    /\ pages' = RemoveAt(pages, k)
    /\ \A i \in 1..Len(visited') : visited'[i] # pages[k]
    /\ hero' = hero
    /\ IF curpage = 0 THEN curpage' = 0
       ELSE curpage' # 0 /\ pages'[curpage'] = pages[curpage]
    /\ UNCHANGED <<heroes, raw, pstate>>

\* closing the index page is vetoed
Vetoed == UNCHANGED <<heroes, raw, hero, pages, curpage, visited, pstate>>

CloseEffect(k) ==
    IF k = 0 THEN Vetoed ELSE IF k = curpage THEN ClosedActive(k) ELSE ClosedOther(k)

\* C21: closing the active hero page removes the page and every occurrence of
\* its hero index from the visited list, deselects the hero and selects the
\* most recently visited hero page still open, or the index page if the
\* visited list left is empty or ends with the index page; closing another
\* hero page leaves the page shown and the hero selected as they are; closing
\* the index page is vetoed and changes nothing
C21_ClosePage ==
    [][\A k \in 0..Len(pages) : OnClosePage(k) => CloseEffect(k)]_vars

-----------------------------------------------------------------------------
(* C22: parse_yaml of a text that holds nothing usable *)

\* the category of the text is unknown or its state is not of the type of
\* the plugin's state
Unusable(entry) ==
    \A j \in 1..Len(YamlPlugins) :
        YamlPlugins[j].name = entry[1] =>
            safe_load(entry[2]).kind \notin {"none", YamlPlugins[j].kind}

\* the text is no YAML, its first value no mapping, or no category is usable
NothingUsable ==
    \/ clip.form # "mapping"
    \/ \A k \in 1..Len(clip.text) : Unusable(clip.text[k])

\* C22: parse_yaml of a text that is no valid YAML, whose first value is no
\* mapping, or whose categories all are unknown or of the wrong type submits
\* no command, calls no load_state, issues no patch and leaves the plugin
\* states as they are; with usable categories patch is issued only if a
\* load_state reported a change
C22_ParseYamlRejects ==
    /\ clip.at \in {"parsed", "done"} /\ NothingUsable =>
          /\ clip.at = "parsed" /\ clip.usables = <<>>
          /\ ~clip.command /\ clip.loads = 0 /\ ~clip.patched /\ clip.after = <<>>
    /\ clip.at = "done" =>
          /\ clip.command /\ clip.loads = Len(clip.usables) /\ clip.loads > 0
          /\ clip.patched => clip.changed

\* parse_yaml has returned on a text whose two categories are known, each with
\* a state of the wrong type for its plugin
C22_Witness ==
    /\ clip.at = "parsed" /\ NothingUsable
    /\ clip.form = "mapping" /\ Len(clip.text) = 2
    /\ \A k \in 1..2 : \E j \in 1..Len(YamlPlugins) : YamlPlugins[j].name = clip.text[k][1]

-----------------------------------------------------------------------------
(* C23: the patch of the hero left by select_hero *)

\* select_hero(i) leaves a selected hero for another one
Switches(i) == hero # 0 /\ i # hero /\ i <= Len(heroes)

\* the hero left is patched once, with the plugins' state of that hero at its
\* span, and the hero at i becomes current and is loaded as it was
PatchedThenLoaded(i) ==
    /\ raw' = SavefilePatch(raw, pstate, heroes[hero].span)
    /\ \A j \in 1..Len(heroes) :
          heroes'[j] = IF j = hero THEN [heroes[j] EXCEPT !.bytes = pstate]
                       ELSE heroes[j]
    /\ hero' = i
    /\ pstate' = heroes[i].bytes

-----------------------------------------------------------------------------
(* C24: the page of the selected hero *)

\* C24: in every state reached by select_hero, select_index, on_close_page
\* and reparse, a selected hero has an open tab page mapped to its index, so
\* that select_hero of the selected hero finds its page
C24_SelectedHeroHasPage ==
    /\ pc = "idle" /\ hero # 0 => HasPage(pages, hero)
    /\ raised # "StopIteration"

-----------------------------------------------------------------------------
(* C25: reparse raises nothing *)

\* C25: reparse completes without raising from every reachable state, also
\* with no hero selected and a visited list that ends with the index page,
\* and with a new hero list shorter than the old one; afterwards the
\* selected hero is None or a hero of the new list
C25_ReparseCompletes ==
    [][ReparseEnd => raised' = None /\ hero' \in 0..Len(heroes')]_vars

-----------------------------------------------------------------------------
(* C26: the pages after reparse *)

\* the index kept for each page re-created by the loop is the index, in the new
\* list, of the hero the page was reconciled to
KeptIndexesMatch ==
    \A k \in 1..Len(Reconciled.pages) :
        LET index == Reconciled.pages[k]
        IN  index <= Len(heroes) /\ MatchHero(heroes0[index], index) = index

\* C26: after reparse the index stored for every re-created hero page is a
\* valid index into the new hero list, and the hero at that index is the one
\* the page was reconciled to, also when heroes changed position; no two
\* pages map to the same index, and every entry of the visited list that is
\* not None is the index of an open page
C26_PagesAfterReparse ==
    [][ReparseEnd =>
          /\ KeptIndexesMatch
          /\ \A k \in 1..Len(pages') : pages'[k] \in 1..Len(heroes')
          /\ \A j, k \in 1..Len(pages') : pages'[j] = pages'[k] => j = k
          /\ \A k \in 1..Len(visited') : visited'[k] = 0 \/ HasPage(pages', visited'[k])
    ]_vars

-----------------------------------------------------------------------------
(* C27: the visited list has no repetition *)

\* C27: after any sequence of select_hero, select_index, on_close_page and
\* reparse the visited list holds no two equal adjacent entries, neither a
\* hero index nor None twice in a row
C27_NoAdjacentRepeat ==
    \A i \in 1..(Len(visited) - 1) : visited[i] # visited[i + 1]

\* a page was left and visited again: the list holds an entry twice, with
\* another one in between
C27_Witness ==
    /\ pc = "idle" /\ Len(visited) = 3
    /\ visited[1] = visited[3]
    /\ Len(pages) = 1

-----------------------------------------------------------------------------
(* C28: the heroes of a pass *)

\* the i-th hero of the list hs holds the bytes of the buffer at its span and
\* the place i - 1, behind the hero before it
PassHero(hs, i) ==
    /\ hs[i].bytes = RawSlice(raw, hs[i].span[1], hs[i].span[2])
    /\ Len(hs[i].bytes) = hs[i].span[2] - hs[i].span[1]
    /\ hs[i].place = i - 1
    /\ i > 1 => hs[i - 1].span[1] < hs[i].span[1]

\* C28: after a detection pass every detected hero h has as bytes the buffer
\* slice [h.span[0], h.span[1]), of the length of the span, and as place the
\* number of heroes accepted before it in the pass: the places of a pass are
\* 0..n-1 and increase with the span start
C28_PassHeroes ==
    /\ \A k \in DOMAIN version_results :
          \A i \in 1..Count(k) : PassHero(version_results[k], i)
    /\ pc = "idle" =>
          /\ {heroes[i].place : i \in 1..Len(heroes)} = 0..(Len(heroes) - 1)
          /\ \A i \in 1..Len(heroes) :
                heroes[i].bytes = RawSlice(raw, heroes[i].span[1], heroes[i].span[2])

\* a pass has ended with two heroes of different records, one behind the other
C28_Witness ==
    /\ pc = "parse" /\ m = <<>>
    /\ \E k \in DOMAIN version_results :
          /\ Count(k) >= 2
          /\ version_results[k][2].span[1] >= version_results[k][1].span[2]
          /\ version_results[k][2].bytes # version_results[k][1].bytes
          /\ version_results[k][2].place = 1

=============================================================================
